---- MODULE Spec2Model ----
(***************************************************************************)
(* Model of the shadow slicing and per-frame pairing code of the firefly   *)
(* 2D lighting crate (src/src/prepare.rs).                                 *)
(*                                                                         *)
(* Angles are f32 radians in the source.  Here they are fixed-point        *)
(* integers in micro-radians: Atan2 returns round(atan2(y,x) * 10^6) and   *)
(* PI is 3141593.  Comparisons, subtractions and additions of angles are   *)
(* then exact integer operations.                                          *)
(***************************************************************************)
EXTENDS Integers, Sequences, FiniteSets, TLC

(***************************************************************************)
(* Bounds of the model.                                                    *)
(***************************************************************************)
\* longest vertex ring handed to push_vertices
MaxLen == 5

\* number of prepare_data invocations (frames) followed
MaxFrames == 2

(***************************************************************************)
(* Numeric helpers.                                                        *)
(***************************************************************************)
\* std::f32::consts::PI in micro-radians
PI == 3141593

Abs(x) == IF x < 0 THEN -x ELSE x

\* round(atan2(y, x) * 10^6) for 0 <= x, y <= 12, row y+1, column x+1
AtanQ1 ==
  <<
    <<0, 0, 0, 0, 0, 0, 0, 0, 0, 0, 0, 0, 0>>,
    <<1570796, 785398, 463648, 321751, 244979, 197396, 165149, 141897, 124355, 110657, 99669, 90660, 83141>>,
    <<1570796, 1107149, 785398, 588003, 463648, 380506, 321751, 278300, 244979, 218669, 197396, 179853, 165149>>,
    <<1570796, 1249046, 982794, 785398, 643501, 540420, 463648, 404892, 358771, 321751, 291457, 266252, 244979>>,
    <<1570796, 1325818, 1107149, 927295, 785398, 674741, 588003, 519146, 463648, 418224, 380506, 348771, 321751>>,
    <<1570796, 1373401, 1190290, 1030377, 896055, 785398, 694738, 620249, 558599, 507099, 463648, 426627, 394791>>,
    <<1570796, 1405648, 1249046, 1107149, 982794, 876058, 785398, 708626, 643501, 588003, 540420, 499347, 463648>>,
    <<1570796, 1428899, 1292497, 1165905, 1051650, 950547, 862170, 785398, 718830, 661043, 610726, 566729, 528074>>,
    <<1570796, 1446441, 1325818, 1212026, 1107149, 1012197, 927295, 851966, 785398, 726642, 674741, 628796, 588003>>,
    <<1570796, 1460139, 1352127, 1249046, 1152572, 1063698, 982794, 909753, 844154, 785398, 732815, 685730, 643501>>,
    <<1570796, 1471128, 1373401, 1279340, 1190290, 1107149, 1030377, 960070, 896055, 837981, 785398, 737815, 694738>>,
    <<1570796, 1480136, 1390943, 1304544, 1222025, 1144169, 1071450, 1004067, 942000, 885067, 832981, 785398, 741947>>,
    <<1570796, 1487655, 1405648, 1325818, 1249046, 1176005, 1107149, 1042722, 982794, 927295, 876058, 828849, 785398>>
  >>

\* f32::atan2: y.atan2(x), a value in (-PI, PI]; atan2(0, 0) is 0
Atan2(y, x) ==
  IF y >= 0
    THEN IF x >= 0 THEN AtanQ1[y + 1][x + 1] ELSE PI - AtanQ1[y + 1][(-x) + 1]
    ELSE IF x >= 0 THEN -AtanQ1[(-y) + 1][x + 1]
                   ELSE -(PI - AtanQ1[(-y) + 1][(-x) + 1])

\* bitwise or of two naturals (the | of u32 words)
RECURSIVE BitOr(_, _)
BitOr(a, b) ==
  IF a = 0 THEN b
  ELSE IF b = 0 THEN a
  ELSE (IF a % 2 = 1 \/ b % 2 = 1 THEN 1 ELSE 0) + 2 * BitOr(a \div 2, b \div 2)

\* a u32 word as the pair <<upper 16 bits, lower 16 bits>>
Word(x) == <<(x \div 65536) % 65536, x % 65536>>

\* the | of two u32 words
WordOr(v, w) == <<BitOr(v[1], w[1]), BitOr(v[2], w[2])>>

\* x << n for a small value x and a shift n of at least 16, as a u32 word
\* (bits shifted past bit 31 are lost)
ShlHigh(x, n) == <<(x * (2 ^ (n - 16))) % 65536, 0>>

\* the f32 value NaN; every other model number is a finite f32
NaN == -2000000000

\* f32 addition and subtraction: NaN when an operand is NaN
FAdd(a, b) == IF a = NaN \/ b = NaN THEN NaN ELSE a + b

FSub(a, b) == IF a = NaN \/ b = NaN THEN NaN ELSE a - b

\* f32::min and f32::max: the other operand when one is NaN
FMin(a, b) == IF a = NaN THEN b ELSE IF b = NaN THEN a ELSE IF a < b THEN a ELSE b

FMax(a, b) == IF a = NaN THEN b ELSE IF b = NaN THEN a ELSE IF a > b THEN a ELSE b

\* f32::clamp: NaN when self is NaN
clamp(x, min, max) ==
  IF x = NaN THEN NaN ELSE IF x < min THEN min ELSE IF x > max THEN max ELSE x

(***************************************************************************)
(* push_vertices: the visibility slicer.                                   *)
(***************************************************************************)
\* OccluderSlice { start, length, term, start_angle, end_angle }
OccluderSlice(start, length, term, start_angle, end_angle) ==
  [start |-> start, length |-> length, term |-> term,
   start_angle |-> start_angle, end_angle |-> end_angle]

\* OccluderSlice::default()
DefaultSlice == OccluderSlice(0, 0, 0, 0, 0)

\* the Vertex list: index and angle of every ring vertex relative to the light
Vertices(occluder_vertices, lp) ==
  [i \in 1..Len(occluder_vertices) |->
     [index |-> i - 1,
      angle |-> Atan2(occluder_vertices[i][2] - lp[2], occluder_vertices[i][1] - lp[1])]]

\* Iterator::rev().collect()
Reversed(s) == [i \in 1..Len(s) |-> s[Len(s) + 1 - i]]

\* the traversal order of the ring: forward, or backward when rev is set
Traversal(c) ==
  IF ~c.rev THEN Vertices(c.occluder_vertices, c.light_pos)
  ELSE Reversed(Vertices(c.occluder_vertices, c.light_pos))

\* IndexWord with the termination mode shifted by 28 instead of 29
IndexWord_Shift28(c, term) ==
  IF c.poly
    THEN WordOr(WordOr(WordOr(ShlHigh(1, 31), ShlHigh(term, 28)),
                       ShlHigh(IF c.rev THEN 1 ELSE 0, 28)),
                Word(c.index))
    ELSE WordOr(ShlHigh(0, 31), Word(c.index))

\* the packed index word of an OccluderPointer
IndexWord(c, term) ==
  IF c.poly
    THEN WordOr(WordOr(WordOr(ShlHigh(1, 31), ShlHigh(term, 29)),
                       ShlHigh(IF c.rev THEN 1 ELSE 0, 28)),
                Word(c.index))
    ELSE WordOr(ShlHigh(0, 31), Word(c.index))

\* push_slice with the softness also added to the pinned end of a mode-1 slice
push_slice_SoftEnd(c, slice) ==
  IF slice.length > 1 /\ slice.term \in 0..2
    THEN << [occluder |-> [index    |-> IndexWord(c, slice.term),
                           min_v    |-> slice.start + c.start_vertex,
                           length   |-> slice.length,
                           distance |-> c.distance],
             start_angle |-> IF slice.term = 2 THEN -PI
                             ELSE slice.start_angle - c.softness,
             end_angle   |-> slice.end_angle + c.softness] >>
    ELSE << >>

\* push_slice that widens by twice the softness
push_slice_DoubleSoft(c, slice) ==
  IF slice.length > 1 /\ slice.term \in 0..2
    THEN << [occluder |-> [index    |-> IndexWord(c, slice.term),
                           min_v    |-> slice.start + c.start_vertex,
                           length   |-> slice.length,
                           distance |-> c.distance],
             start_angle |-> IF slice.term = 2 THEN -PI
                             ELSE slice.start_angle - 2 * c.softness,
             end_angle   |-> IF slice.term = 1 THEN PI
                             ELSE slice.end_angle + 2 * c.softness] >>
    ELSE << >>

\* push_slice whose length check lets one-vertex slices through
push_slice_KeepSingle(c, slice) ==
  IF slice.length > 0 /\ slice.term \in 0..2
    THEN << [occluder |-> [index    |-> IndexWord(c, slice.term),
                           min_v    |-> slice.start + c.start_vertex,
                           length   |-> slice.length,
                           distance |-> c.distance],
             start_angle |-> IF slice.term = 2 THEN -PI
                             ELSE slice.start_angle - c.softness,
             end_angle   |-> IF slice.term = 1 THEN PI
                             ELSE slice.end_angle + c.softness] >>
    ELSE << >>

\* the closure push_slice: the add_occluder calls it makes for one slice,
\* as a sequence of <<OccluderPointer, start angle, end angle>> records
push_slice(c, slice) ==
  IF slice.length > 1
    THEN LET occluder == [index    |-> IndexWord(c, slice.term),
                          min_v    |-> slice.start + c.start_vertex,
                          length   |-> slice.length,
                          distance |-> c.distance]
         IN  CASE slice.term = 0 ->
                    << [occluder |-> occluder,
                        start_angle |-> FSub(slice.start_angle, c.softness),
                        end_angle   |-> FAdd(slice.end_angle, c.softness)] >>
               [] slice.term = 1 ->
                    << [occluder |-> occluder,
                        start_angle |-> FSub(slice.start_angle, c.softness),
                        end_angle   |-> PI] >>
               [] slice.term = 2 ->
                    << [occluder |-> occluder,
                        start_angle |-> -PI,
                        end_angle   |-> FAdd(slice.end_angle, c.softness)] >>
               [] OTHER -> << >>
    ELSE << >>

\* let loops = (vertex.angle - last.angle).abs() > PI
Loops(last, vertex) == Abs(vertex.angle - last.angle) > PI

\* Branch with the two comparisons of the non-looping case exchanged
Branch_Swapped(last, vertex) ==
  IF (~Loops(last, vertex) /\ vertex.angle > last.angle)
     \/ (Loops(last, vertex) /\ vertex.angle > last.angle)
    THEN "decreasing"
  ELSE IF ~Loops(last, vertex) /\ vertex.angle < last.angle
    THEN "increasing"
  ELSE "loops"

\* which branch of the loop body a vertex takes, given the previous vertex
Branch(last, vertex) ==
  IF (~Loops(last, vertex) /\ vertex.angle < last.angle)
     \/ (Loops(last, vertex) /\ vertex.angle > last.angle)
    THEN "decreasing"
  ELSE IF ~Loops(last, vertex) /\ vertex.angle > last.angle
    THEN "increasing"
  ELSE "loops"

\* SingleSlice that always starts the run at index 0
SingleSlice_Zero(vertex) == OccluderSlice(0, 1, 0, vertex.angle, vertex.angle)

\* a run that starts at one vertex
SingleSlice(vertex) == OccluderSlice(vertex.index, 1, 0, vertex.angle, vertex.angle)

\* the slice extended by one vertex (both increasing branches)
Extended(slice, vertex) ==
  [slice EXCEPT !.start  = IF slice.length = 0 THEN vertex.index ELSE @,
                !.length = @ + 1]

\* the slices handed to push_slice by one pass of the loop body
BodyPushed(slice, last, vertex) ==
  CASE Branch(last, vertex) = "decreasing" -> << slice >>
    [] Branch(last, vertex) = "increasing" -> << >>
    [] OTHER -> << [Extended(slice, vertex) EXCEPT !.term = 1] >>

\* BodySlice whose run after a wrap starts at the current vertex only
BodySlice_ShortWrap(slice, last, vertex) ==
  CASE Branch(last, vertex) = "decreasing" -> SingleSlice(vertex)
    [] Branch(last, vertex) = "increasing" ->
         [Extended(slice, vertex) EXCEPT !.end_angle = vertex.angle]
    [] OTHER -> OccluderSlice(vertex.index, 1, 2, vertex.angle, vertex.angle)

\* the current slice after one pass of the loop body
BodySlice(slice, last, vertex) ==
  CASE Branch(last, vertex) = "decreasing" -> SingleSlice(vertex)
    [] Branch(last, vertex) = "increasing" ->
         [Extended(slice, vertex) EXCEPT !.end_angle = vertex.angle]
    [] OTHER -> OccluderSlice(last.index, 2, 2, last.angle, vertex.angle)

\* the records a sequence of slices contributes, in order
RECURSIVE PushAll(_, _)
PushAll(c, slices) ==
  IF slices = << >> THEN << >>
  ELSE push_slice(c, Head(slices)) \o PushAll(c, Tail(slices))

\* the slices handed to push_slice by the whole call, in order: the loop
\* over the first k vertices, with the current slice as the last element
RECURSIVE SliceRun(_, _)
SliceRun(vs, k) ==
  IF k = 0 THEN << DefaultSlice >>
  ELSE IF k = 1 THEN << SingleSlice(vs[1]) >>
  ELSE LET prev == SliceRun(vs, k - 1)
           cur  == prev[Len(prev)]
       IN  SubSeq(prev, 1, Len(prev) - 1)
             \o BodyPushed(cur, vs[k - 1], vs[k])
             \o << BodySlice(cur, vs[k - 1], vs[k]) >>

\* push_vertices as a function: every add_occluder call it makes, in order
push_vertices(c) == PushAll(c, SliceRun(Traversal(c), Len(c.occluder_vertices)))

(***************************************************************************)
(* Geometry used by prepare_data.                                          *)
(***************************************************************************)
Min2(a, b) == IF a < b THEN a ELSE b

Max2(a, b) == IF a > b THEN a ELSE b

\* Option values: << >> is None, <<x>> is Some(x)
None == << >>

Some(x) == << x >>

\* Rect::union_point: the smallest rectangle containing r and the point p
UnionPoint(r, p) ==
  [min |-> <<Min2(r.min[1], p[1]), Min2(r.min[2], p[2])>>,
   max |-> <<Max2(r.max[1], p[1]), Max2(r.max[2], p[2])>>]

\* Rect::intersect: the common part, min collapsed onto max when it is empty
Intersect(a, b) ==
  LET hi == <<Min2(a.max[1], b.max[1]), Min2(a.max[2], b.max[2])>>
      lo == <<Max2(a.min[1], b.min[1]), Max2(a.min[2], b.min[2])>>
  IN  [min |-> <<Min2(lo[1], hi[1]), Min2(lo[2], hi[2])>>, max |-> hi]

\* Aabb2d::intersects: closed boxes that overlap or touch
Intersects(a, b) ==
  /\ a.min[1] <= b.max[1] /\ a.max[1] >= b.min[1]
  /\ a.min[2] <= b.max[2] /\ a.max[2] >= b.min[2]

\* Aabb2d::closest_point: the point clamped into the box
ClosestPoint(a, p) ==
  <<Max2(a.min[1], Min2(p[1], a.max[1])), Max2(a.min[2], Min2(p[2], a.max[2]))>>

\* the largest r in lo..hi with r * r <= x
RECURSIVE SqrtIn(_, _, _)
SqrtIn(x, lo, hi) ==
  IF lo >= hi THEN lo
  ELSE LET mid == (lo + hi + 1) \div 2
       IN  IF mid * mid <= x THEN SqrtIn(x, mid, hi) ELSE SqrtIn(x, lo, mid - 1)

\* Vec2::distance in thousandths: floor(1000 * sqrt(dx^2 + dy^2))
Distance(p, q) ==
  SqrtIn(((p[1] - q[1]) * (p[1] - q[1]) + (p[2] - q[2]) * (p[2] - q[2])) * 1000000,
         0, 46000)

\* the bounding box of a non-empty point sequence (Aabb2d::from_point_cloud
\* of points already in world space)
BoundingBox(ps) ==
  LET xs == {ps[i][1] : i \in 1..Len(ps)}
      ys == {ps[i][2] : i \in 1..Len(ps)}
  IN  [min |-> <<CHOOSE x \in xs : \A z \in xs : x <= z,
                 CHOOSE y \in ys : \A z \in ys : y <= z>>,
       max |-> <<CHOOSE x \in xs : \A z \in xs : x >= z,
                 CHOOSE y \in ys : \A z \in ys : y >= z>>]

\* translate_vertices for a rotation of 0: every vertex moved by the translation
translate_vertices(vertices, translation) ==
  [i \in 1..Len(vertices) |->
     <<vertices[i][1] + translation[1], vertices[i][2] + translation[2]>>]

\* does the edge from a to b cross the ray from p towards +x
CrossesRay(p, a, b) ==
  /\ (a[2] > p[2]) # (b[2] > p[2])
  /\ IF b[2] > a[2]
       THEN (p[1] - a[1]) * (b[2] - a[2]) < (b[1] - a[1]) * (p[2] - a[2])
       ELSE (p[1] - a[1]) * (b[2] - a[2]) > (b[1] - a[1]) * (p[2] - a[2])

\* point_inside_poly: ray-crossing test, with the bounding box as fast path
point_inside_poly(p, vertices, aabb) ==
  /\ Len(vertices) > 0
  /\ aabb.min[1] <= p[1] /\ p[1] <= aabb.max[1]
  /\ aabb.min[2] <= p[2] /\ p[2] <= aabb.max[2]
  /\ Cardinality({i \in 1..Len(vertices) :
        CrossesRay(p, vertices[i],
                   vertices[IF i = 1 THEN Len(vertices) ELSE i - 1])}) % 2 = 1

\* RoundRectRing without the inflation by radius
RoundRectRing_NoRadius(width, height, radius) ==
  << <<-(width \div 2), -(height \div 2)>>,
     <<-(width \div 2), (height \div 2)>>,
     <<(width \div 2), (height \div 2)>>,
     <<(width \div 2), -(height \div 2)>>,
     <<-(width \div 2), -(height \div 2)>> >>

\* the five-point ring of a RoundRectangle: the rectangle inflated by radius
RoundRectRing(width, height, radius) ==
  << <<-(width \div 2) - radius, -(height \div 2) - radius>>,
     <<-(width \div 2) - radius, (height \div 2) + radius>>,
     <<(width \div 2) + radius, (height \div 2) + radius>>,
     <<(width \div 2) + radius, -(height \div 2) - radius>>,
     <<-(width \div 2) - radius, -(height \div 2) - radius>> >>

\* ExtractedOccluder::vertices(): the world-space ring of a polygonal occluder
OccluderVertices(o) ==
  IF o.shape.kind = "RoundRectangle"
    THEN translate_vertices(
           RoundRectRing(o.shape.width, o.shape.height, o.shape.radius), o.pos)
    ELSE translate_vertices(o.shape.vertices, o.pos)

\* ExtractedOccluder::aabb: the box enclosing the occluder's world-space ring
OccluderAabb(o) == BoundingBox(OccluderVertices(o))

\* camera_rect: the projection area moved to the camera position
CameraRect(sc) ==
  [min |-> <<sc.area.min[1] + sc.camera_pos[1], sc.area.min[2] + sc.camera_pos[2]>>,
   max |-> <<sc.area.max[1] + sc.camera_pos[1], sc.area.max[2] + sc.camera_pos[2]>>]

\* the box [pos - range, pos + range] of a light
RangeBox(light) ==
  [min |-> <<light.pos[1] - light.range, light.pos[2] - light.range>>,
   max |-> <<light.pos[1] + light.range, light.pos[2] + light.range>>]

\* light_aabb without the intersection with the range box
LightAabb_NoRange(sc, light) == UnionPoint(CameraRect(sc), light.pos)

\* light_aabb: the camera rectangle extended to the light position,
\* intersected with the light's range box
LightAabb(sc, light) ==
  Intersect(UnionPoint(CameraRect(sc), light.pos), RangeBox(light))

\* the softness handed to the slicer: 0 when absent, else clamped to [0, 1]
SoftnessOf(sc) ==
  IF sc.softness = None THEN 0 ELSE clamp(sc.softness[1], 0, 1000000)

\* the softness prepare_config writes to the uniform: x.min(1.).max(0.)
UniformSoftness(sc) ==
  IF sc.softness = None THEN 0 ELSE FMax(FMin(sc.softness[1], 1000000), 0)

\* Skipped without the cast_shadows flag
Skipped_IgnoreFlag(sc, light, o) ==
  ~Intersects(OccluderAabb(o), LightAabb(sc, light))

\* the first check of the occluder loop: the light casts no shadows or the
\* occluder's box misses light_aabb
Skipped(sc, light, o) ==
  ~light.cast_shadows \/ ~Intersects(OccluderAabb(o), LightAabb(sc, light))

\* the push_vertices arguments of a RoundRectangle occluder
RoundCall(sc, light, o) ==
  LET vertices == translate_vertices(
                    RoundRectRing(o.shape.width, o.shape.height, o.shape.radius),
                    o.pos)
      aabb == BoundingBox(vertices)
  IN  [occluder_vertices |-> vertices,
       light_pos    |-> light.pos,
       start_vertex |-> 0,
       index        |-> o.round_index[1],
       softness     |-> SoftnessOf(sc),
       distance     |-> Distance(ClosestPoint(aabb, light.pos), light.pos),
       rev          |-> point_inside_poly(light.pos, vertices, aabb),
       poly         |-> FALSE]

\* PolyCall with the distance measured to the occluder position
PolyCall_CenterDistance(sc, light, o) ==
  [occluder_vertices |-> OccluderVertices(o),
   light_pos    |-> light.pos,
   start_vertex |-> o.poly_vertices[1],
   index        |-> o.poly_occluder[1],
   softness     |-> SoftnessOf(sc),
   distance     |-> Distance(o.pos, light.pos),
   rev          |-> /\ o.shape.kind = "Polygon"
                    /\ point_inside_poly(light.pos, OccluderVertices(o),
                                         OccluderAabb(o)),
   poly         |-> TRUE]

\* PolyCall with the inside test applied to every shape
PolyCall_AnyShape(sc, light, o) ==
  [occluder_vertices |-> OccluderVertices(o),
   light_pos    |-> light.pos,
   start_vertex |-> o.poly_vertices[1],
   index        |-> o.poly_occluder[1],
   softness     |-> SoftnessOf(sc),
   distance     |-> Distance(ClosestPoint(OccluderAabb(o), light.pos), light.pos),
   rev          |-> point_inside_poly(light.pos, OccluderVertices(o), OccluderAabb(o)),
   poly         |-> TRUE]

\* the push_vertices arguments of an occluder of any other shape
PolyCall(sc, light, o) ==
  [occluder_vertices |-> OccluderVertices(o),
   light_pos    |-> light.pos,
   start_vertex |-> o.poly_vertices[1],
   index        |-> o.poly_occluder[1],
   softness     |-> SoftnessOf(sc),
   distance     |-> Distance(ClosestPoint(OccluderAabb(o), light.pos), light.pos),
   rev          |-> /\ o.shape.kind = "Polygon"
                    /\ point_inside_poly(light.pos, OccluderVertices(o),
                                         OccluderAabb(o)),
   poly         |-> TRUE]

\* the body of the occluder loop up to its push_vertices call: None when the
\* occluder is skipped, else the arguments of the call
OccluderCall(sc, light, o) ==
  IF Skipped(sc, light, o) THEN None
  ELSE IF o.shape.kind = "RoundRectangle"
    THEN IF o.round_index = None THEN None ELSE Some(RoundCall(sc, light, o))
  ELSE IF o.poly_occluder = None \/ o.poly_vertices = None THEN None
  ELSE Some(PolyCall(sc, light, o))

\* the add_occluder calls one occluder causes for one light: the body of the
\* occluder loop
OccluderRecords(sc, light, o) ==
  IF OccluderCall(sc, light, o) = None THEN << >>
  ELSE push_vertices(OccluderCall(sc, light, o)[1])

(***************************************************************************)
(* State.                                                                  *)
(***************************************************************************)
VARIABLES
  call,      \* the arguments of the running push_vertices call
  last,      \* number of vertices consumed; 0 is last = None
  slice,     \* the current OccluderSlice
  bins,      \* the add_occluder calls made so far, in order
  emitted,   \* the slices behind the records of bins, in order
  pc,        \* "loop" while the call runs, "done" when it has returned
  scene,     \* the extracted world: camera, views, lights, occluders, config
  frame,     \* number of prepare_data invocations started
  pcP,       \* position of prepare_data: "idle", "views" or "par"
  pending,   \* the views of the lightmap phases still to be looped over
  tasks,     \* the chunk tasks of the running parallel phase
  bufs,      \* per light: its BinBuffer
  pointers,  \* per light: the value of its LightPointer
  light_bind_groups, \* the LightBindGroups resource
  batches,   \* the LightBatches resource
  ops,       \* per light: the BinBuffer operations of this invocation
  history,   \* the scene and the operations (without task) of every finished invocation
  uniform    \* the UniformFireflyConfig written by prepare_config, None before

VARIABLES
  sprite_world,           \* the input of prepare_sprite_image_bind_groups
  image_bind_groups,      \* the keys of the ImageBindGroups resource
  sprite_batches,         \* the SpriteBatches resource
  sprite_instance_buffer, \* the instances pushed, each with its sprite and batch
  index,                  \* the running instance count
  view_at,                \* the view of the sprite phases being looped over
  item_index,             \* the phase item being looped over
  current_batch,          \* None, or the key of the batch instances are added to
  batch_item_index,       \* the phase item that opened the current batch
  batch_image_handle,     \* the image of the current batch, "invalid" if none
  batch_normal_handle,    \* the normal map of the current batch
  is_dummy,               \* whether the current batch has no normal map
  batch_range_end,        \* per view and phase item: increments of batch_range.end
  sprite_index_buffer,    \* the content of the sprite index buffer
  pcS                     \* position of prepare_sprite_image_bind_groups

VARIABLES
  cameras,          \* the Camera2d entities of the main world
  sprite_phases,    \* per retained view: the items of its sprite phase
  lightmap_phases,  \* per retained view: preprocessing mode and items
  live_entities,    \* the Local set of extract_camera_phases
  camera_at,        \* the camera the loop of extract_camera_phases is at
  runs,             \* the cameras each run of extract_camera_phases started with
  pcE               \* position of extract_camera_phases

slicerVars == <<call, last, slice, bins, emitted, pc>>

prepareVars ==
  <<scene, frame, pcP, pending, tasks, bufs, pointers, light_bind_groups,
    batches, ops, history>>

spriteVars ==
  <<sprite_world, image_bind_groups, sprite_batches, sprite_instance_buffer,
    index, view_at, item_index, current_batch, batch_item_index,
    batch_image_handle, batch_normal_handle, is_dummy, batch_range_end,
    sprite_index_buffer, pcS>>

extractVars ==
  <<cameras, sprite_phases, lightmap_phases, live_entities, camera_at, runs, pcE>>

vars == <<slicerVars, prepareVars, uniform, spriteVars, extractVars>>

(***************************************************************************)
(* Inputs of the slicer.                                                   *)
(***************************************************************************)
\* the corner points rings are built from
Pts == {<<-1, -1>>, <<-1, 1>>, <<1, 1>>, <<1, -1>>}

\* the closed square ring (-1,-1),(-1,1),(1,1),(1,-1),(-1,-1)
Square == << <<-1, -1>>, <<-1, 1>>, <<1, 1>>, <<1, -1>>, <<-1, -1>> >>

\* every ring of at most MaxLen points
Rings == UNION {[1..n -> Pts] : n \in 0..MaxLen}

\* light positions: inside the square, below it, right of it
LightPositions == {<<0, 0>>, <<0, -10>>, <<10, 0>>}

\* softness values in [0, 1]: 0, 0.2 and 1
Softnesses == {0, 200000, 1000000}

StartVertices == {3}
Indices == {5}
Distances == {7}

Calls ==
  [occluder_vertices : Rings, light_pos : LightPositions,
   start_vertex : StartVertices, index : Indices, softness : Softnesses,
   distance : Distances, rev : BOOLEAN, poly : BOOLEAN]

\* the slices of a sequence that pass the length check of push_slice
Kept(slices) == SelectSeq(slices, LAMBDA s : s.length > 1 /\ s.term \in 0..2)

(***************************************************************************)
(* Inputs of prepare_data.                                                 *)
(***************************************************************************)
\* the light entities, in query order
Lights == <<"l1", "l2">>

\* the occluder entities, in query order
Occluders == <<"o1", "o2">>

\* the sets of views the lightmap phases can hold
ViewSets == {{}, {"v1"}, {"v1", "v2"}}

\* the shapes of occluder o1, which sits at the origin
Shapes ==
  {[kind |-> "RoundRectangle", width |-> 2, height |-> 2, radius |-> 1],
   [kind |-> "Polygon", vertices |-> Square],
   [kind |-> "Polyline", vertices |-> Square]}

\* the extracted worlds prepare_data is run on
Scenes ==
  {[orthographic |-> orth,
    area         |-> [min |-> <<-3, -3>>, max |-> <<3, 3>>],
    camera_pos   |-> <<0, 0>>,
    softness     |-> Some(200000),
    views        |-> vs,
    lights       |->
      [l \in {"l1", "l2"} |->
         IF l = "l1"
           THEN [pos |-> p1, range |-> 4, cast_shadows |-> cs1, index |-> i1]
           ELSE [pos |-> <<0, -6>>, range |-> 12, cast_shadows |-> TRUE,
                 index |-> Some(1)]],
    occluders    |->
      [o \in {"o1", "o2"} |->
         IF o = "o1"
           THEN [shape |-> sh, pos |-> <<0, 0>>, round_index |-> Some(0),
                 poly_occluder |-> Some(0), poly_vertices |-> Some(0)]
           ELSE [shape |-> [kind |-> "Polygon", vertices |-> Square],
                 pos |-> <<6, 0>>, round_index |-> None,
                 poly_occluder |-> i2, poly_vertices |-> Some(5)]]] :
     orth \in BOOLEAN, vs \in ViewSets, p1 \in {<<0, 0>>, <<8, 0>>},
     cs1 \in BOOLEAN, i1 \in {None, Some(0)}, sh \in Shapes,
     i2 \in {None, Some(1)}}

\* the scenes the world can change to between two frames: the index of
\* light l1 is assigned or withdrawn, the set of views changes, or the
\* camera's projection stops being orthographic
SceneChanges(sc) ==
  {[sc EXCEPT !.lights["l1"].index = IF @ = None THEN Some(0) ELSE None]}
    \cup {[sc EXCEPT !.views = vs] : vs \in ViewSets \ {sc.views}}
    \cup (IF sc.orthographic THEN {[sc EXCEPT !.orthographic = FALSE]} ELSE {})

\* the values the model's slicer variables hold while prepare_data is modelled
SlicerUnused ==
  /\ call = << >>
  /\ last = 0
  /\ slice = DefaultSlice
  /\ bins = << >>
  /\ emitted = << >>
  /\ pc = "unused"

\* the values the sprite batching variables hold while it is not modelled
SpriteUnused ==
  /\ sprite_world = << >>
  /\ image_bind_groups = {}
  /\ sprite_batches = << >>
  /\ sprite_instance_buffer = << >>
  /\ index = 0
  /\ view_at = 0
  /\ item_index = 0
  /\ current_batch = << >>
  /\ batch_item_index = 0
  /\ batch_image_handle = "invalid"
  /\ batch_normal_handle = "uninit"
  /\ is_dummy = "uninit"
  /\ batch_range_end = << >>
  /\ sprite_index_buffer = << >>
  /\ pcS = "unused"

\* the values the camera phase variables hold while extraction is not modelled
ExtractUnused ==
  /\ cameras = << >>
  /\ sprite_phases = << >>
  /\ lightmap_phases = << >>
  /\ live_entities = {}
  /\ camera_at = 0
  /\ runs = << >>
  /\ pcE = "unused"

\* the values the prepare_data variables hold while the slicer is modelled
PrepareUnused ==
  /\ scene = << >>
  /\ frame = 0
  /\ pcP = "unused"
  /\ pending = << >>
  /\ tasks = << >>
  /\ bufs = << >>
  /\ pointers = << >>
  /\ light_bind_groups = << >>
  /\ batches = << >>
  /\ ops = << >>
  /\ history = << >>
  /\ uniform = None

(***************************************************************************)
(* The slicer, one loop iteration per step.                                *)
(***************************************************************************)
SlicerInit ==
  /\ PrepareUnused
  /\ SpriteUnused
  /\ ExtractUnused
  /\ call \in Calls
  /\ last = 0
  /\ slice = DefaultSlice
  /\ bins = << >>
  /\ emitted = << >>
  /\ pc = "loop"

\* first iteration: last is None
FirstVertex ==
  /\ pc = "loop"
  /\ last = 0
  /\ Len(call.occluder_vertices) > 0
  /\ slice' = SingleSlice(Traversal(call)[1])
  /\ last' = 1
  /\ UNCHANGED <<call, bins, emitted, pc, prepareVars, uniform, spriteVars, extractVars>>

\* a later iteration that takes the given branch
Body(branch) ==
  /\ pc = "loop"
  /\ last > 0
  /\ last < Len(call.occluder_vertices)
  /\ LET vs == Traversal(call)
         l  == vs[last]
         v  == vs[last + 1]
     IN  /\ Branch(l, v) = branch
         /\ bins' = bins \o PushAll(call, BodyPushed(slice, l, v))
         /\ emitted' = emitted \o Kept(BodyPushed(slice, l, v))
         /\ slice' = BodySlice(slice, l, v)
  /\ last' = last + 1
  /\ UNCHANGED <<call, pc, prepareVars, uniform, spriteVars, extractVars>>

Decreasing == Body("decreasing")

Increasing == Body("increasing")

LoopsOver == Body("loops")

\* the push_slice after the loop
FinalPush ==
  /\ pc = "loop"
  /\ last = Len(call.occluder_vertices)
  /\ bins' = bins \o push_slice(call, slice)
  /\ emitted' = emitted \o Kept(<< slice >>)
  /\ pc' = "done"
  /\ UNCHANGED <<call, last, slice, prepareVars, uniform, spriteVars, extractVars>>

SlicerNext ==
  \/ FirstVertex
  \/ Decreasing
  \/ Increasing
  \/ LoopsOver
  \/ FinalPush

(***************************************************************************)
(* BinBuffer: the entries inserted since the last reset, and the content   *)
(* of the last write.                                                      *)
(***************************************************************************)
EmptyBuffer == [entries |-> << >>, written |-> << >>]

\* BinBuffer::reset: logically empty, storage kept
BinReset(b) == [b EXCEPT !.entries = << >>]

\* BinBuffer::add_occluder, for a sequence of calls
BinAdd(b, recs) == [b EXCEPT !.entries = @ \o recs]

\* BinBuffer::write: the bulk upload of the current entries
BinWrite(b) == [b EXCEPT !.written = b.entries]

(***************************************************************************)
(* prepare_data.                                                           *)
(***************************************************************************)
LightSet == {Lights[i] : i \in 1..Len(Lights)}

\* insertion into a map (entry(k).insert(v))
MapInsert(m, k, v) == [x \in (DOMAIN m) \cup {k} |-> IF x = k THEN v ELSE m[x]]

\* the orders in which a set of views can be iterated
Orders(S) ==
  {q \in [1..Cardinality(S) -> S] : \A i, j \in 1..Cardinality(S) : i # j => q[i] # q[j]}

\* chunks_mut with overlapping chunks: every chunk after the first starts
\* one element early
Chunks_Overlap(list, chunk_size) ==
  [j \in 1..((Len(list) + chunk_size - 1) \div chunk_size) |->
     SubSeq(list, Max2(1, (j - 1) * chunk_size), Min2(j * chunk_size, Len(list)))]

\* par_splat_map_mut / chunks_mut: the list cut into consecutive chunks
Chunks(list, chunk_size) ==
  [j \in 1..((Len(list) + chunk_size - 1) \div chunk_size) |->
     SubSeq(list, (j - 1) * chunk_size + 1, Min2(j * chunk_size, Len(list)))]

\* the bind group created for a light
BindGroup(l, ptr) == [light_pointer |-> ptr, bins |-> l]

\* one BinBuffer operation of the log
Event(op, t, o, rec) == [op |-> op, task |-> t, occ |-> o, rec |-> rec]

\* the log entries for the add_occluder calls of occluder o
AddEvents(t, o, recs) == [i \in 1..Len(recs) |-> Event("add", t, o, recs[i])]

\* a log without the task that performed each operation
Untasked(log) ==
  [i \in 1..Len(log) |-> [op |-> log[i].op, occ |-> log[i].occ, rec |-> log[i].rec]]

NoOps == [l \in LightSet |-> << >>]

PrepareInit ==
  /\ SlicerUnused
  /\ scene \in Scenes
  /\ frame = 0
  /\ pcP = "idle"
  /\ pending = << >>
  /\ tasks = << >>
  /\ bufs = [l \in LightSet |-> EmptyBuffer]
  /\ pointers = [l \in LightSet |-> None]
  /\ light_bind_groups = << >>
  /\ batches = << >>
  /\ ops = NoOps
  /\ history = << >>
  /\ uniform = None
  /\ SpriteUnused
  /\ ExtractUnused

\* the extracted world changes between two frames
SceneChange ==
  /\ pcP = "idle"
  /\ frame >= 1
  /\ frame < MaxFrames
  /\ scene' \in SceneChanges(scene)
  /\ UNCHANGED <<slicerVars, uniform, spriteVars, extractVars, frame, pcP, pending, tasks, bufs, pointers,
                 light_bind_groups, batches, ops, history>>

\* EnterReturn that clears LightBatches before it returns
EnterReturn_Clear ==
  /\ pcP = "idle"
  /\ frame < MaxFrames
  /\ ~scene.orthographic
  /\ frame' = frame + 1
  /\ ops' = NoOps
  /\ batches' = << >>
  /\ history' = Append(history, [scene |-> scene, ops |-> NoOps])
  /\ UNCHANGED <<slicerVars, uniform, spriteVars, extractVars, scene, pcP, pending, tasks, bufs, pointers,
                 light_bind_groups>>

\* prepare_data with a projection that is not orthographic: it returns
EnterReturn ==
  /\ pcP = "idle"
  /\ frame < MaxFrames
  /\ ~scene.orthographic
  /\ frame' = frame + 1
  /\ ops' = NoOps
  /\ history' = Append(history, [scene |-> scene, ops |-> NoOps])
  /\ UNCHANGED <<slicerVars, uniform, spriteVars, extractVars, scene, pcP, pending, tasks, bufs, pointers,
                 light_bind_groups, batches>>

\* Enter without batches.clear()
Enter_NoClear ==
  /\ pcP = "idle"
  /\ frame < MaxFrames
  /\ scene.orthographic
  /\ frame' = frame + 1
  /\ ops' = NoOps
  /\ pending' \in Orders(scene.views)
  /\ pcP' = "views"
  /\ UNCHANGED <<slicerVars, uniform, spriteVars, extractVars, scene, batches, tasks, bufs, pointers, light_bind_groups,
                 history>>

\* prepare_data up to the loop over the views: batches.clear()
Enter ==
  /\ pcP = "idle"
  /\ frame < MaxFrames
  /\ scene.orthographic
  /\ frame' = frame + 1
  /\ batches' = << >>
  /\ ops' = NoOps
  /\ pending' \in Orders(scene.views)
  /\ pcP' = "views"
  /\ UNCHANGED <<slicerVars, uniform, spriteVars, extractVars, scene, tasks, bufs, pointers, light_bind_groups,
                 history>>

\* the next view: the light list is cut into chunks, one task per chunk
StartView ==
  /\ pcP = "views"
  /\ pending # << >>
  /\ \E chunk_size \in 1..Len(Lights) :
       tasks' = [j \in 1..Len(Chunks(Lights, chunk_size)) |->
                   [lights |-> Chunks(Lights, chunk_size)[j], at |-> 1,
                    step |-> 0, bind_groups |-> << >>]]
  /\ pcP' = "par"
  /\ UNCHANGED <<slicerVars, uniform, spriteVars, extractVars, scene, frame, pending, bufs, pointers,
                 light_bind_groups, batches, ops, history>>

\* task t has a light left to handle
Running(t) ==
  /\ pcP = "par"
  /\ t \in 1..Len(tasks)
  /\ tasks[t].at <= Len(tasks[t].lights)

\* the light task t is at
LightOf(t) == tasks[t].lights[tasks[t].at]

\* LightSkip that still writes the BinBuffer of the skipped light
LightSkip_Write(t) ==
  /\ Running(t)
  /\ tasks[t].step = 0
  /\ scene.lights[LightOf(t)].index = None
  /\ bufs' = [bufs EXCEPT ![LightOf(t)] = BinWrite(@)]
  /\ ops' = [ops EXCEPT ![LightOf(t)] =
                Append(@, Event("write", t, "", bufs[LightOf(t)].entries))]
  /\ tasks' = [tasks EXCEPT ![t].at = @ + 1]
  /\ UNCHANGED <<slicerVars, uniform, spriteVars, extractVars, scene, frame, pcP, pending, pointers,
                 light_bind_groups, batches, history>>

\* a light without index: continue
LightSkip(t) ==
  /\ Running(t)
  /\ tasks[t].step = 0
  /\ scene.lights[LightOf(t)].index = None
  /\ tasks' = [tasks EXCEPT ![t].at = @ + 1]
  /\ UNCHANGED <<slicerVars, uniform, spriteVars, extractVars, scene, frame, pcP, pending, bufs, pointers,
                 light_bind_groups, batches, ops, history>>

\* LightBegin without the reset of the BinBuffer
LightBegin_NoReset(t) ==
  /\ Running(t)
  /\ tasks[t].step = 0
  /\ scene.lights[LightOf(t)].index # None
  /\ pointers' = [pointers EXCEPT ![LightOf(t)] = scene.lights[LightOf(t)].index]
  /\ tasks' = [tasks EXCEPT ![t].step = 1]
  /\ UNCHANGED <<slicerVars, uniform, spriteVars, extractVars, scene, frame, pcP, pending, bufs, ops,
                 light_bind_groups, batches, history>>

\* a light with an index: the light pointer is set and written, the
\* BinBuffer is reset
LightBegin(t) ==
  /\ Running(t)
  /\ tasks[t].step = 0
  /\ scene.lights[LightOf(t)].index # None
  /\ pointers' = [pointers EXCEPT ![LightOf(t)] = scene.lights[LightOf(t)].index]
  /\ bufs' = [bufs EXCEPT ![LightOf(t)] = BinReset(@)]
  /\ ops' = [ops EXCEPT ![LightOf(t)] = Append(@, Event("reset", t, "", << >>))]
  /\ tasks' = [tasks EXCEPT ![t].step = 1]
  /\ UNCHANGED <<slicerVars, uniform, spriteVars, extractVars, scene, frame, pcP, pending, light_bind_groups,
                 batches, history>>

\* one pass of the occluder loop for the light of task t
OccluderStep(t) ==
  /\ Running(t)
  /\ tasks[t].step \in 1..Len(Occluders)
  /\ LET l    == LightOf(t)
         o    == Occluders[tasks[t].step]
         recs == OccluderRecords(scene, scene.lights[l], scene.occluders[o])
     IN  /\ bufs' = [bufs EXCEPT ![l] = BinAdd(@, recs)]
         /\ ops' = [ops EXCEPT ![l] = @ \o AddEvents(t, o, recs)]
  /\ tasks' = [tasks EXCEPT ![t].step = @ + 1]
  /\ UNCHANGED <<slicerVars, uniform, spriteVars, extractVars, scene, frame, pcP, pending, pointers,
                 light_bind_groups, batches, history>>

\* after the occluder loop: the BinBuffer is written and the light's bind
\* group is created and pushed to the task's result
LightEnd(t) ==
  /\ Running(t)
  /\ tasks[t].step = Len(Occluders) + 1
  /\ LET l == LightOf(t)
     IN  /\ bufs' = [bufs EXCEPT ![l] = BinWrite(@)]
         /\ ops' = [ops EXCEPT ![l] = Append(@, Event("write", t, "", bufs[l].entries))]
         /\ tasks' = [tasks EXCEPT ![t].at = @ + 1, ![t].step = 0,
                                   ![t].bind_groups =
                                     Append(@, <<l, BindGroup(l, pointers[l])>>)]
  /\ UNCHANGED <<slicerVars, uniform, spriteVars, extractVars, scene, frame, pcP, pending, pointers,
                 light_bind_groups, batches, history>>

\* the results of all tasks, in chunk order
RECURSIVE Results(_, _)
Results(ts, j) ==
  IF j > Len(ts) THEN << >> ELSE ts[j].bind_groups \o Results(ts, j + 1)

\* LightBindGroups after the sequence of results is inserted
RECURSIVE MergedGroups(_, _)
MergedGroups(m, rs) ==
  IF rs = << >> THEN m
  ELSE MergedGroups(MapInsert(m, Head(rs)[1], Head(rs)[2]), Tail(rs))

\* LightBatches after the sequence of results is inserted for a view
RECURSIVE MergedBatches(_, _, _)
MergedBatches(m, view, rs) ==
  IF rs = << >> THEN m
  ELSE MergedBatches(MapInsert(m, <<view, Head(rs)[1]>>, [id |-> Head(rs)[1]]),
                     view, Tail(rs))

\* all tasks have returned: their results are inserted into LightBindGroups
\* and LightBatches
Merge ==
  /\ pcP = "par"
  /\ \A t \in 1..Len(tasks) : tasks[t].at > Len(tasks[t].lights)
  /\ light_bind_groups' = MergedGroups(light_bind_groups, Results(tasks, 1))
  /\ batches' = MergedBatches(batches, Head(pending), Results(tasks, 1))
  /\ pending' = Tail(pending)
  /\ tasks' = << >>
  /\ pcP' = "views"
  /\ UNCHANGED <<slicerVars, uniform, spriteVars, extractVars, scene, frame, bufs, pointers, ops, history>>

\* the loop over the views is over: prepare_data returns
Return ==
  /\ pcP = "views"
  /\ pending = << >>
  /\ pcP' = "idle"
  /\ history' = Append(history, [scene |-> scene,
                                  ops |-> [l \in LightSet |-> Untasked(ops[l])]])
  /\ UNCHANGED <<slicerVars, uniform, spriteVars, extractVars, scene, frame, pending, tasks, bufs, pointers,
                 light_bind_groups, batches, ops>>

PrepareNext ==
  \/ SceneChange
  \/ EnterReturn
  \/ Enter
  \/ StartView
  \/ \E t \in 1..Len(Lights) : LightSkip(t)
  \/ \E t \in 1..Len(Lights) : LightBegin(t)
  \/ \E t \in 1..Len(Lights) : OccluderStep(t)
  \/ \E t \in 1..Len(Lights) : LightEnd(t)
  \/ Merge
  \/ Return

SpecPrepare == PrepareInit /\ [][PrepareNext]_vars

(***************************************************************************)
(* One iteration of the occluder loop of prepare_data for one light, and   *)
(* prepare_config for the same configuration.                              *)
(***************************************************************************)
\* the configured softness values: absent, -0.5, 0.2, 1.5 and NaN
ConfiguredSoftness == {None, Some(-500000), Some(200000), Some(1500000), Some(NaN)}

\* the index components: unassigned, 5 and 2^28 - 1
IndexOptions == {None, Some(5), Some(268435455)}

\* the lights of the iteration: inside the occluder, right of it, below it,
\* and diagonally off it
LoopLights ==
  [pos : {<<0, 0>>, <<8, 0>>, <<0, -6>>, <<8, -6>>}, range : {4, 12},
   cast_shadows : BOOLEAN]

RoundShapes ==
  {[kind |-> "RoundRectangle", width |-> 2, height |-> 2, radius |-> 1],
   [kind |-> "RoundRectangle", width |-> 4, height |-> 2, radius |-> 1],
   [kind |-> "RoundRectangle", width |-> 2, height |-> 4, radius |-> 0]}

PolyShapes ==
  {[kind |-> "Polygon", vertices |-> Square],
   [kind |-> "Polyline", vertices |-> Square]}

\* the occluders of the iteration
LoopOccluders ==
  {[pos |-> p, shape |-> sh, round_index |-> ri,
    poly_occluder |-> None, poly_vertices |-> None] :
      p \in {<<0, 0>>, <<1, 0>>}, sh \in RoundShapes, ri \in IndexOptions}
  \cup
  {[pos |-> p, shape |-> sh, round_index |-> None,
    poly_occluder |-> po, poly_vertices |-> pv] :
      p \in {<<0, 0>>, <<1, 0>>}, sh \in PolyShapes, po \in IndexOptions,
      pv \in {None, Some(3)}}

\* the world of one iteration: camera, configuration, one light, one occluder
LoopScenes ==
  [area : {[min |-> <<-3, -3>>, max |-> <<3, 3>>]},
   camera_pos : {<<0, 0>>},
   softness : ConfiguredSoftness,
   light_bands : {None},
   z_sorting : {FALSE},
   normal_mode : {"None"},
   light : LoopLights,
   occluder : LoopOccluders]

\* the state at the top of the loop body, right after bins.reset()
OccluderInit ==
  /\ scene \in LoopScenes
  /\ frame = 0
  /\ pcP = "unused"
  /\ pending = << >>
  /\ tasks = << >>
  /\ bufs = << >>
  /\ pointers = << >>
  /\ light_bind_groups = << >>
  /\ batches = << >>
  /\ ops = << >>
  /\ history = << >>
  /\ uniform = None
  /\ SpriteUnused
  /\ ExtractUnused
  /\ call = << >>
  /\ last = 0
  /\ slice = DefaultSlice
  /\ bins = << >>
  /\ emitted = << >>
  /\ pc = "occluder"

\* the occluder is skipped by one of the continue statements
OccluderSkip ==
  /\ pc = "occluder"
  /\ OccluderCall(scene, scene.light, scene.occluder) = None
  /\ pc' = "skipped"
  /\ UNCHANGED <<call, last, slice, bins, emitted, prepareVars, uniform, spriteVars, extractVars>>

\* the occluder reaches its push_vertices call
OccluderPush ==
  /\ pc = "occluder"
  /\ OccluderCall(scene, scene.light, scene.occluder) # None
  /\ call' = OccluderCall(scene, scene.light, scene.occluder)[1]
  /\ pc' = "loop"
  /\ UNCHANGED <<last, slice, bins, emitted, prepareVars, uniform, spriteVars, extractVars>>

\* the UniformFireflyConfig prepare_config builds from a FireflyConfig
UniformFireflyConfig(config) ==
  [light_bands |-> IF config.light_bands = None THEN 0 ELSE config.light_bands[1],
   softness    |-> UniformSoftness(config),
   z_sorting   |-> IF config.z_sorting THEN 1 ELSE 0,
   normal_mode |-> CASE config.normal_mode = "None" -> 0
                     [] config.normal_mode = "Simple" -> 1
                     [] config.normal_mode = "TopDown" -> 2]

\* prepare_config: the uniform is built and written
PrepareConfig ==
  /\ uniform = None
  /\ uniform' = Some(UniformFireflyConfig(scene))
  /\ UNCHANGED <<slicerVars, prepareVars, spriteVars, extractVars>>

OccluderNext ==
  \/ OccluderSkip
  \/ OccluderPush
  \/ PrepareConfig
  \/ FirstVertex
  \/ Decreasing
  \/ Increasing
  \/ LoopsOver
  \/ FinalPush

SpecOccluder == OccluderInit /\ [][OccluderNext]_vars

(***************************************************************************)
(* prepare_sprite_image_bind_groups, one phase item per step.              *)
(***************************************************************************)
\* the largest number of items in a sprite phase
MaxItems == 3

\* the extracted sprites a phase item can point at; render_entity 0 is the
\* entity of no phase item
SpriteTemplates ==
  [matches : {TRUE}, image_handle_id : {"a", "b"},
   normal_handle_id : {None, Some("n")}, kind : {"Single", "Slices"}]
  \cup [matches : {FALSE}, image_handle_id : {"a"}, normal_handle_id : {None},
        kind : {"Single"}]

\* the inputs: the views with a sprite phase, the extracted sprites (phase
\* item i of every view has entity i and extracted_index i), the images that
\* are ready on the GPU, and the ids of the image events
SpriteWorlds ==
  [phases : {<<"v1">>, <<"v1", "v2">>},
   sprites : UNION {[1..n -> SpriteTemplates] : n \in 0..MaxItems},
   gpu_images : {{"a"}, {"a", "b"}, {"a", "n"}, {"a", "b", "n"}},
   events : {{"n"}}]

\* the number of instances a sprite pushes: one, or one per slice
InstanceCount(sprite) == IF sprite.kind = "Single" THEN 1 ELSE 2

\* extracted_sprites.sprites.get(extracted_index) filtered by render_entity
ExtractedSprite(w, i) ==
  IF i \in 1..Len(w.sprites) /\ w.sprites[i].matches
    THEN Some(w.sprites[i]) ELSE None

\* the instances one sprite pushes while the given batch is current
Pushed(i, sprite, key) ==
  [k \in 1..InstanceCount(sprite) |-> [sprite |-> i, view |-> view_at, batch |-> key]]

\* what an earlier frame left behind
SpriteInit ==
  /\ SlicerUnused
  /\ PrepareUnused
  /\ ExtractUnused
  /\ sprite_world \in SpriteWorlds
  /\ image_bind_groups = {<<"a", "a", TRUE>>, <<"b", "n", FALSE>>}
  /\ sprite_batches =
       [k \in {<<"v1", 1>>} |->
          [image_handle_id |-> "a", normal_handle_id |-> "a",
           normal_dummy |-> TRUE, range |-> <<0, 1>>]]
  /\ sprite_instance_buffer = << [sprite |-> 1, view |-> 1, batch |-> Some(<<"v1", 1>>)] >>
  /\ index = 0
  /\ view_at = 0
  /\ item_index = 0
  /\ current_batch = None
  /\ batch_item_index = 0
  /\ batch_image_handle = "invalid"
  /\ batch_normal_handle = "uninit"
  /\ is_dummy = "uninit"
  /\ batch_range_end = << >>
  /\ sprite_index_buffer \in {<< >>, <<2, 0, 1, 1, 3, 2>>}
  /\ pcS = "start"

\* up to the loop over the views: bind groups of changed images are dropped,
\* the batches and the instance buffer are cleared
SpriteBegin ==
  /\ pcS = "start"
  /\ image_bind_groups' =
       {k \in image_bind_groups :
          \A id \in sprite_world.events : k[1] # id /\ k[2] # id}
  /\ sprite_batches' = << >>
  /\ sprite_instance_buffer' = << >>
  /\ index' = 0
  /\ view_at' = 1
  /\ batch_range_end' =
       [v \in 1..Len(sprite_world.phases) |->
          [i \in 1..Len(sprite_world.sprites) |-> 0]]
  /\ pcS' = "view"
  /\ UNCHANGED <<sprite_world, item_index, current_batch, batch_item_index,
                 batch_image_handle, batch_normal_handle, is_dummy,
                 sprite_index_buffer, slicerVars, prepareVars, uniform, extractVars>>

\* the locals of one view
ViewStart ==
  /\ pcS = "view"
  /\ view_at <= Len(sprite_world.phases)
  /\ current_batch' = None
  /\ batch_item_index' = 0
  /\ batch_image_handle' = "invalid"
  /\ batch_normal_handle' = "uninit"
  /\ is_dummy' = "uninit"
  /\ item_index' = 0
  /\ pcS' = "items"
  /\ UNCHANGED <<sprite_world, image_bind_groups, sprite_batches,
                 sprite_instance_buffer, index, view_at, batch_range_end,
                 sprite_index_buffer, slicerVars, prepareVars, uniform, extractVars>>

\* the loop is at a phase item
AtItem == pcS = "items" /\ item_index < Len(sprite_world.sprites)

\* the extracted sprite of the phase item the loop is at
ItemSprite == ExtractedSprite(sprite_world, item_index + 1)

\* the normal map handle and dummy flag chosen for a sprite
NormalOf(sprite) ==
  IF sprite.normal_handle_id = None
    THEN <<sprite.image_handle_id, TRUE>>
    ELSE <<sprite.normal_handle_id[1], FALSE>>

\* the phase item is not a sprite: the batch image is invalidated
ItemNotSprite ==
  /\ AtItem
  /\ ItemSprite = None
  /\ batch_image_handle' = "invalid"
  /\ item_index' = item_index + 1
  /\ UNCHANGED <<sprite_world, image_bind_groups, sprite_batches,
                 sprite_instance_buffer, index, view_at, current_batch,
                 batch_item_index, batch_normal_handle, is_dummy, batch_range_end,
                 sprite_index_buffer, pcS, slicerVars, prepareVars, uniform,
                 extractVars>>

\* the sprite has another image than the batch and its GPU image is missing
ItemImageMissing ==
  /\ AtItem
  /\ ItemSprite # None
  /\ batch_image_handle # ItemSprite[1].image_handle_id
  /\ ItemSprite[1].image_handle_id \notin sprite_world.gpu_images
  /\ item_index' = item_index + 1
  /\ UNCHANGED <<sprite_world, image_bind_groups, sprite_batches,
                 sprite_instance_buffer, index, view_at, current_batch,
                 batch_item_index, batch_image_handle, batch_normal_handle,
                 is_dummy, batch_range_end, sprite_index_buffer, pcS, slicerVars,
                 prepareVars, uniform, extractVars>>

\* the sprite has another image than the batch, its GPU image is there and
\* the GPU image of its normal map is missing
ItemNormalMissing ==
  /\ AtItem
  /\ ItemSprite # None
  /\ batch_image_handle # ItemSprite[1].image_handle_id
  /\ ItemSprite[1].image_handle_id \in sprite_world.gpu_images
  /\ ~NormalOf(ItemSprite[1])[2]
  /\ NormalOf(ItemSprite[1])[1] \notin sprite_world.gpu_images
  /\ batch_image_handle' = ItemSprite[1].image_handle_id
  /\ batch_normal_handle' = NormalOf(ItemSprite[1])[1]
  /\ is_dummy' = NormalOf(ItemSprite[1])[2]
  /\ item_index' = item_index + 1
  /\ UNCHANGED <<sprite_world, image_bind_groups, sprite_batches,
                 sprite_instance_buffer, index, view_at, current_batch,
                 batch_item_index, batch_range_end, sprite_index_buffer, pcS,
                 slicerVars, prepareVars, uniform, extractVars>>

\* the sprite has another image than the batch and its images are there: a
\* batch is opened and the sprite's instances are added to it
ItemNewBatch ==
  /\ AtItem
  /\ ItemSprite # None
  /\ LET sprite == ItemSprite[1]
         normal == NormalOf(sprite)
         key    == <<sprite_world.phases[view_at], item_index + 1>>
         n      == InstanceCount(sprite)
     IN  /\ batch_image_handle # sprite.image_handle_id
         /\ sprite.image_handle_id \in sprite_world.gpu_images
         /\ normal[2] \/ normal[1] \in sprite_world.gpu_images
         /\ batch_image_handle' = sprite.image_handle_id
         /\ batch_normal_handle' = normal[1]
         /\ is_dummy' = normal[2]
         /\ image_bind_groups' =
              image_bind_groups \cup {<<sprite.image_handle_id, normal[1], normal[2]>>}
         /\ batch_item_index' = item_index
         /\ current_batch' = Some(key)
         /\ sprite_batches' =
              MapInsert(sprite_batches, key,
                        [image_handle_id |-> sprite.image_handle_id,
                         normal_handle_id |-> normal[1],
                         normal_dummy |-> normal[2],
                         range |-> <<index, index + n>>])
         /\ sprite_instance_buffer' =
              sprite_instance_buffer \o Pushed(item_index + 1, sprite, Some(key))
         /\ index' = index + n
         /\ batch_range_end' =
              [batch_range_end EXCEPT ![view_at][item_index + 1] = @ + 1]
  /\ item_index' = item_index + 1
  /\ UNCHANGED <<sprite_world, view_at, sprite_index_buffer, pcS, slicerVars,
                 prepareVars, uniform, extractVars>>

\* the sprite has the image of the batch and there is a current batch: its
\* instances are added to that batch
ItemSameBatch ==
  /\ AtItem
  /\ ItemSprite # None
  /\ batch_image_handle = ItemSprite[1].image_handle_id
  /\ current_batch # None
  /\ LET n == InstanceCount(ItemSprite[1])
     IN  /\ sprite_instance_buffer' =
              sprite_instance_buffer \o Pushed(item_index + 1, ItemSprite[1],
                                               current_batch)
         /\ sprite_batches' =
              [sprite_batches EXCEPT ![current_batch[1]].range[2] = @ + n]
         /\ index' = index + n
  /\ batch_range_end' =
       [batch_range_end EXCEPT ![view_at][batch_item_index + 1] = @ + 1]
  /\ item_index' = item_index + 1
  /\ UNCHANGED <<sprite_world, image_bind_groups, view_at, current_batch,
                 batch_item_index, batch_image_handle, batch_normal_handle,
                 is_dummy, sprite_index_buffer, pcS, slicerVars, prepareVars,
                 uniform, extractVars>>

\* the sprite has the image of the batch and current_batch is None: its
\* first instance is pushed and the unwrap panics
ItemPanic ==
  /\ AtItem
  /\ ItemSprite # None
  /\ batch_image_handle = ItemSprite[1].image_handle_id
  /\ current_batch = None
  /\ sprite_instance_buffer' =
       Append(sprite_instance_buffer,
              [sprite |-> item_index + 1, view |-> view_at, batch |-> None])
  /\ pcS' = "panicked"
  /\ UNCHANGED <<sprite_world, image_bind_groups, sprite_batches, index, view_at,
                 item_index, current_batch, batch_item_index, batch_image_handle,
                 batch_normal_handle, is_dummy, batch_range_end,
                 sprite_index_buffer, slicerVars, prepareVars, uniform, extractVars>>

\* after the items of a view: the instance buffer is written and the index
\* buffer is filled if it does not hold its 6 indices yet
ViewEnd ==
  /\ pcS = "items"
  /\ item_index = Len(sprite_world.sprites)
  /\ sprite_index_buffer' =
       IF Len(sprite_index_buffer) # 6 THEN <<2, 0, 1, 1, 3, 2>>
       ELSE sprite_index_buffer
  /\ view_at' = view_at + 1
  /\ pcS' = "view"
  /\ UNCHANGED <<sprite_world, image_bind_groups, sprite_batches,
                 sprite_instance_buffer, index, item_index, current_batch,
                 batch_item_index, batch_image_handle, batch_normal_handle,
                 is_dummy, batch_range_end, slicerVars, prepareVars, uniform,
                 extractVars>>

\* the loop over the views is over: the system returns
SpritesReturn ==
  /\ pcS = "view"
  /\ view_at > Len(sprite_world.phases)
  /\ pcS' = "done"
  /\ UNCHANGED <<sprite_world, image_bind_groups, sprite_batches,
                 sprite_instance_buffer, index, view_at, item_index,
                 current_batch, batch_item_index, batch_image_handle,
                 batch_normal_handle, is_dummy, batch_range_end,
                 sprite_index_buffer, slicerVars, prepareVars, uniform, extractVars>>

SpriteNext ==
  \/ SpriteBegin
  \/ ViewStart
  \/ ItemNotSprite
  \/ ItemImageMissing
  \/ ItemNormalMissing
  \/ ItemNewBatch
  \/ ItemSameBatch
  \/ ItemPanic
  \/ ViewEnd
  \/ SpritesReturn

SpecSprites == SpriteInit /\ [][SpriteNext]_vars

(***************************************************************************)
(* extract_camera_phases, one camera per step.                             *)
(***************************************************************************)
\* the Camera2d entities, in query order
CameraIds == <<"c1", "c2">>

CameraSet == {CameraIds[i] : i \in 1..Len(CameraIds)}

\* a camera entity: despawned, or spawned with its Camera.is_active flag and
\* with or without the NoIndirectDrawing component
CameraStates ==
  {[exists |-> FALSE, is_active |-> FALSE, no_indirect_drawing |-> FALSE]}
  \cup [exists : {TRUE}, is_active : BOOLEAN, no_indirect_drawing : BOOLEAN]

\* the cameras the query yields, in order
QueryCameras(cs) == SelectSeq(CameraIds, LAMBDA c : cs[c].exists)

\* RetainedViewEntity::new(main_entity, None, 0)
RetainedViewEntity(c) == <<c, 0>>

\* gpu_preprocessing_support.min(..) for a device that supports culling
PreprocessingMode(camera) ==
  IF ~camera.no_indirect_drawing THEN "Culling" ELSE "PreprocessingOnly"

\* HashMap::retain by key
Retain(m, keep) == [k \in (DOMAIN m) \cap keep |-> m[k]]

ExtractInit ==
  /\ SlicerUnused
  /\ PrepareUnused
  /\ SpriteUnused
  /\ cameras \in [CameraSet -> CameraStates]
  /\ sprite_phases = << >>
  /\ lightmap_phases = << >>
  /\ live_entities = {}
  /\ camera_at = 0
  /\ runs = << >>
  /\ pcE = "idle"

\* between two frames a camera is spawned, despawned, switched on or off
CameraChange ==
  /\ pcE = "done"
  /\ Len(runs) < MaxFrames
  /\ \E c \in CameraSet :
       \E st \in CameraStates \ {cameras[c]} :
         cameras' = [cameras EXCEPT ![c] = st]
  /\ pcE' = "idle"
  /\ UNCHANGED <<sprite_phases, lightmap_phases, live_entities, camera_at, runs,
                 slicerVars, prepareVars, uniform, spriteVars>>

\* the queue systems of the frame fill the phases that exist
QueueItems ==
  /\ pcE = "done"
  /\ Len(runs) < MaxFrames
  /\ \E v \in DOMAIN sprite_phases : sprite_phases[v] = << >>
  /\ sprite_phases' = [v \in DOMAIN sprite_phases |-> << "sprite" >>]
  /\ lightmap_phases' =
       [v \in DOMAIN lightmap_phases |->
          [lightmap_phases[v] EXCEPT !.items = << "light" >>]]
  /\ UNCHANGED <<cameras, live_entities, camera_at, runs, pcE, slicerVars,
                 prepareVars, uniform, spriteVars>>

\* live_entities.clear() and the start of the loop over the cameras
ExtractStart ==
  /\ pcE \in {"idle", "done"}
  /\ Len(runs) < MaxFrames
  /\ live_entities' = {}
  /\ camera_at' = 1
  /\ runs' = Append(runs, cameras)
  /\ pcE' = "cameras"
  /\ UNCHANGED <<cameras, sprite_phases, lightmap_phases, slicerVars,
                 prepareVars, uniform, spriteVars>>

\* a camera that is not active is skipped
CameraSkip ==
  /\ pcE = "cameras"
  /\ camera_at <= Len(QueryCameras(cameras))
  /\ ~cameras[QueryCameras(cameras)[camera_at]].is_active
  /\ camera_at' = camera_at + 1
  /\ UNCHANGED <<cameras, sprite_phases, lightmap_phases, live_entities, runs,
                 pcE, slicerVars, prepareVars, uniform, spriteVars>>

\* an active camera: its phases are inserted or cleared and its view is live
CameraExtract ==
  /\ pcE = "cameras"
  /\ camera_at <= Len(QueryCameras(cameras))
  /\ LET c == QueryCameras(cameras)[camera_at]
         retained_view_entity == RetainedViewEntity(c)
     IN  /\ cameras[c].is_active
         /\ sprite_phases' = MapInsert(sprite_phases, retained_view_entity, << >>)
         /\ lightmap_phases' =
              MapInsert(lightmap_phases, retained_view_entity,
                        [mode |-> PreprocessingMode(cameras[c]), items |-> << >>])
         /\ live_entities' = live_entities \cup {retained_view_entity}
  /\ camera_at' = camera_at + 1
  /\ UNCHANGED <<cameras, runs, pcE, slicerVars, prepareVars, uniform, spriteVars>>

\* ExtractRetain that keeps the dead views
ExtractRetain_KeepDead ==
  /\ pcE = "cameras"
  /\ camera_at > Len(QueryCameras(cameras))
  /\ pcE' = "done"
  /\ UNCHANGED <<cameras, sprite_phases, lightmap_phases, live_entities,
                 camera_at, runs, slicerVars, prepareVars, uniform, spriteVars>>

\* after the loop: the views that are not live are dropped from both phases
ExtractRetain ==
  /\ pcE = "cameras"
  /\ camera_at > Len(QueryCameras(cameras))
  /\ sprite_phases' = Retain(sprite_phases, live_entities)
  /\ lightmap_phases' = Retain(lightmap_phases, live_entities)
  /\ pcE' = "done"
  /\ UNCHANGED <<cameras, live_entities, camera_at, runs, slicerVars,
                 prepareVars, uniform, spriteVars>>

ExtractNext ==
  \/ CameraChange
  \/ QueueItems
  \/ ExtractStart
  \/ CameraSkip
  \/ CameraExtract
  \/ ExtractRetain

SpecExtract == ExtractInit /\ [][ExtractNext]_vars

Init == SlicerInit

Next == SlicerNext

Spec == Init /\ [][Next]_vars

\* the stepwise run makes the calls of push_vertices
StepwiseAgrees == pc = "done" => bins = push_vertices(call)

(***************************************************************************)
(* Properties of the slicer.                                               *)
(***************************************************************************)
\* the ring points a record of bins refers to: the original indices
\* min_v - start_vertex .. min_v - start_vertex + length - 1
RunPoints(i) ==
  {call.occluder_vertices[(bins[i].occluder.min_v - call.start_vertex) + k] :
     k \in 1..bins[i].occluder.length}

\* the angle of point p seen from the light of the call
AngleOf(p) == Atan2(p[2] - call.light_pos[2], p[1] - call.light_pos[1])

\* the square ring has been sliced for the light at (0,-10), forward, no softness
SquareBelowDone ==
  /\ pc = "done"
  /\ call.occluder_vertices = Square
  /\ call.light_pos = <<0, -10>>
  /\ ~call.rev
  /\ call.softness = 0

\* C1 as stated: for the closed square and the light at (0,-10) outside it
\* (forward traversal, softness 0) exactly one record is emitted, of mode 0,
\* whose run is the two far vertices (-1,1) and (1,1) and whose interval
\* bounds are the angles of those two vertices.
C1_FarRun ==
  SquareBelowDone =>
    /\ Len(bins) = 1
    /\ emitted[1].term = 0
    /\ RunPoints(1) = {<<-1, 1>>, <<1, 1>>}
    /\ {bins[1].start_angle, bins[1].end_angle}
         = {AngleOf(<<-1, 1>>), AngleOf(<<1, 1>>)}

\* C1 amended: for the closed square and the light at (0,-10) exactly one
\* record is emitted, of mode 0; its run is the two near vertices, ring
\* indices 3 and 4, that is (1,-1) and (-1,-1), and its interval goes from the
\* angle of (1,-1) to the angle of (-1,-1).
C1_NearRun ==
  SquareBelowDone =>
    /\ Len(bins) = 1
    /\ emitted[1].term = 0
    /\ bins[1].occluder.min_v - call.start_vertex = 3
    /\ bins[1].occluder.length = 2
    /\ RunPoints(1) = {<<1, -1>>, <<-1, -1>>}
    /\ bins[1].start_angle = AngleOf(<<1, -1>>)
    /\ bins[1].end_angle = AngleOf(<<-1, -1>>)

C1_Witness == SquareBelowDone /\ Len(bins) = 1

\* positions k of the traversal whose pair (k, k+1) crosses +PI: the angle
\* difference exceeds PI in magnitude and the raw angle drops
CrossingPairs ==
  {k \in 1..(Len(call.occluder_vertices) - 1) :
     LET vs == Traversal(call)
     IN  /\ Abs(vs[k + 1].angle - vs[k].angle) > PI
         /\ vs[k + 1].angle < vs[k].angle}

\* positions k of the traversal whose pair (k, k+1) has equal angles
EqualPairs ==
  {k \in 1..(Len(call.occluder_vertices) - 1) :
     Traversal(call)[k + 1].angle = Traversal(call)[k].angle}

C3_SoftInterval ==
  /\ Len(emitted) = Len(bins)
  /\ \A i \in 1..Len(bins) :
       /\ emitted[i].term = 0 =>
            /\ bins[i].start_angle = emitted[i].start_angle - call.softness
            /\ bins[i].end_angle = emitted[i].end_angle + call.softness
       /\ emitted[i].term = 1 =>
            /\ bins[i].start_angle = emitted[i].start_angle - call.softness
            /\ bins[i].end_angle = PI
       /\ emitted[i].term = 2 =>
            /\ bins[i].start_angle = -PI
            /\ bins[i].end_angle = emitted[i].end_angle + call.softness

C3_Witness ==
  /\ pc = "done"
  /\ call.softness = 200000
  /\ \A t \in 0..2 : \E i \in 1..Len(bins) : emitted[i].term = t

\* C4 as stated: every interval passed to add_occluder lies inside [-PI, PI].
C4_InsidePi ==
  \A i \in 1..Len(bins) :
    bins[i].start_angle >= -PI /\ bins[i].end_angle <= PI

\* C4 amended: every interval passed to add_occluder lies inside
\* [-PI - s, PI + s] for the softness s of the call, hence inside [-PI, PI]
\* when s is 0; a mode-1 interval never ends past PI and a mode-2 interval
\* never starts before -PI.
C4_InsidePiPlusSoft ==
  \A i \in 1..Len(bins) :
    /\ bins[i].start_angle >= -PI - call.softness
    /\ bins[i].end_angle <= PI + call.softness
    /\ emitted[i].term = 1 => bins[i].end_angle <= PI
    /\ emitted[i].term = 2 => bins[i].start_angle >= -PI

C4_Witness ==
  /\ pc = "done"
  /\ call.softness > 0
  /\ \E i \in 1..Len(bins) : bins[i].start_angle < -PI
  /\ \E i \in 1..Len(bins) : bins[i].end_angle > PI

\* C10: a ring with no vertex or with one vertex inserts no record.
C10_DegenerateRing == Len(call.occluder_vertices) <= 1 => bins = << >>

C10_Witness ==
  /\ pc = "done"
  /\ Len(call.occluder_vertices) = 1
  /\ call.rev
  /\ call.poly
  /\ bins = << >>

\* the position in the traversal of the vertex with original index idx
PosOf(idx) ==
  IF ~call.rev THEN idx + 1 ELSE Len(call.occluder_vertices) - idx

\* the traversal positions of the run behind record i
RunRange(i) ==
  PosOf(emitted[i].start)..(PosOf(emitted[i].start) + emitted[i].length - 1)

\* the angle difference of the traversal pair (k, k+1)
Delta(k) == Traversal(call)[k + 1].angle - Traversal(call)[k].angle

\* the pair (k, k+1) is increasing without wrap
RisingPair(k) == Abs(Delta(k)) <= PI /\ Delta(k) > 0

\* the pair (k, k+1) is increasing across +PI: the raw angle drops by more than PI
WrapPair(k) == Abs(Delta(k)) > PI /\ Delta(k) < 0

\* the pair (k, k+1) is decreasing, directly or across -PI
FallingPair(k) ==
  \/ Abs(Delta(k)) <= PI /\ Delta(k) < 0
  \/ Abs(Delta(k)) > PI /\ Delta(k) > 0

\* the records whose run contains both vertices of the pair (k, k+1)
Holding(k) == {i \in 1..Len(emitted) : k \in RunRange(i) /\ (k + 1) \in RunRange(i)}

\* C11: every record inserted has a run length of at least 2.
C11_LengthAtLeastTwo ==
  \A i \in 1..Len(bins) : bins[i].occluder.length >= 2

C11_Witness ==
  /\ pc = "done"
  /\ \E i \in 1..Len(bins) : bins[i].occluder.length = 2
  /\ \E i \in 1..Len(bins) : bins[i].occluder.length >= 3

\* C15: a record of mode 1 or 2 is produced only when some pair of
\* consecutive traversed vertices differs by more than PI in angle; when
\* every consecutive difference is at most PI in magnitude (equal angles
\* included) only mode-0 records are produced.
C15_WrapOnlyOnJump ==
  (\A k \in 1..(Len(call.occluder_vertices) - 1) : Abs(Delta(k)) <= PI) =>
    \A i \in 1..Len(emitted) : emitted[i].term = 0

\* C16: in a ring without two consecutive vertices of equal angle, every
\* pair of consecutive vertices inside an emitted run is increasing: it grows
\* by at most PI, or it crosses +PI; no run contains a decreasing pair.
C16_RunsIncrease ==
  EqualPairs = {} =>
    \A i \in 1..Len(emitted) :
      /\ RunRange(i) \subseteq 1..Len(call.occluder_vertices)
      /\ \A k \in RunRange(i) :
           (k + 1) \in RunRange(i) => (RisingPair(k) \/ WrapPair(k))

C16_Witness ==
  /\ pc = "done"
  /\ EqualPairs = {}
  /\ call.rev
  /\ \E i \in 1..Len(emitted) :
       /\ emitted[i].term = 1
       /\ emitted[i].length >= 3
  /\ \E i \in 1..Len(emitted) : emitted[i].term = 0

\* C17: after the call, every increasing pair without wrap lies in exactly
\* one emitted run, every pair that crosses +PI lies in exactly two (it ends
\* a mode-1 record and starts the run that follows it), and every decreasing
\* pair lies in none.
C17_NoEdgeLost ==
  pc = "done" =>
    \A k \in 1..(Len(call.occluder_vertices) - 1) :
      /\ RisingPair(k) => Cardinality(Holding(k)) = 1
      /\ FallingPair(k) => Holding(k) = {}
      /\ WrapPair(k) =>
           /\ Cardinality(Holding(k)) = 2
           /\ \E i \in 1..(Len(emitted) - 1) :
                /\ Holding(k) = {i, i + 1}
                /\ emitted[i].term = 1
                /\ PosOf(emitted[i].start) + emitted[i].length - 1 = k + 1
                /\ PosOf(emitted[i + 1].start) = k

C17_Witness ==
  /\ pc = "done"
  /\ \E k \in 1..(Len(call.occluder_vertices) - 1) : RisingPair(k)
  /\ \E k \in 1..(Len(call.occluder_vertices) - 1) : FallingPair(k)
  /\ \E k \in 1..(Len(call.occluder_vertices) - 1) :
       WrapPair(k) /\ Cardinality(Holding(k)) = 2

\* the original indices of the vertices of the run behind record i
RunIndices(i) == {Traversal(call)[k].index : k \in RunRange(i)}

\* C18 as stated: in forward and in reverse traversal, min_v is the
\* start_vertex offset plus the smallest original index of the run.
C18_MinIndex ==
  \A i \in 1..Len(bins) :
    /\ RunRange(i) \subseteq 1..Len(call.occluder_vertices)
    /\ \A x \in RunIndices(i) : bins[i].occluder.min_v - call.start_vertex <= x

\* C18 amended: min_v is the start_vertex offset plus the original index of
\* the first vertex of the run in traversal order; that is the smallest
\* original index of the run in forward traversal and the largest one in
\* reverse traversal, where the run is the index range
\* [min_v - start_vertex - length + 1, min_v - start_vertex].
C18_FirstIndex ==
  \A i \in 1..Len(bins) :
    LET first == bins[i].occluder.min_v - call.start_vertex
        len   == bins[i].occluder.length
    IN  /\ RunRange(i) \subseteq 1..Len(call.occluder_vertices)
        /\ first = Traversal(call)[PosOf(emitted[i].start)].index
        /\ first \in RunIndices(i)
        /\ ~call.rev => RunIndices(i) = first..(first + len - 1)
        /\ call.rev => RunIndices(i) = (first - len + 1)..first

C18_Witness ==
  /\ pc = "done"
  /\ call.rev
  /\ \E i \in 1..Len(bins) :
       /\ bins[i].occluder.length >= 3
       /\ \E x \in RunIndices(i) : x < bins[i].occluder.min_v - call.start_vertex

\* C29: with softness >= 0 and finite angles, every interval handed to
\* add_occluder is well ordered, start angle <= end angle, in each of the
\* three termination modes.
C29_IntervalOrdered ==
  (call.softness >= 0) =>
    \A i \in 1..Len(bins) :
      /\ emitted[i].term \in {0, 1, 2}
      /\ bins[i].start_angle <= bins[i].end_angle

C29_Witness ==
  /\ pc = "done"
  /\ call.softness = 0
  /\ \E i \in 1..Len(bins) : emitted[i].term = 0
  /\ \E i \in 1..Len(bins) : emitted[i].term = 1
  /\ \E i \in 1..Len(bins) : emitted[i].term = 2
  /\ \E i \in 1..Len(bins) : emitted[i].term = 0 /\ emitted[i].length >= 3

(***************************************************************************)
(* Properties of the occluder loop body and of prepare_config.             *)
(***************************************************************************)
\* push_vertices has been called for the occluder of the scene
Called == pc \in {"loop", "done"}

\* the ring handed to push_vertices, moved back by the occluder position
LocalRing ==
  [i \in 1..Len(call.occluder_vertices) |->
     <<call.occluder_vertices[i][1] - scene.occluder.pos[1],
       call.occluder_vertices[i][2] - scene.occluder.pos[2]>>]

\* C12: the local ring of a RoundRectangle is the five points (-hw,-hh),
\* (-hw,hh), (hw,hh), (hw,-hh), (-hw,-hh) with hw = width/2 + radius and
\* hh = height/2 + radius; width 4, height 2, radius 1 give (3, 2).
C12_InflatedRectangle ==
  (Called /\ scene.occluder.shape.kind = "RoundRectangle") =>
    LET sh == scene.occluder.shape
        hw == sh.width \div 2 + sh.radius
        hh == sh.height \div 2 + sh.radius
    IN  /\ LocalRing = << <<-hw, -hh>>, <<-hw, hh>>, <<hw, hh>>, <<hw, -hh>>,
                          <<-hw, -hh>> >>
        /\ (sh.width = 4 /\ sh.height = 2 /\ sh.radius = 1) =>
             LocalRing = << <<-3, -2>>, <<-3, 2>>, <<3, 2>>, <<3, -2>>, <<-3, -2>> >>

C12_Witness ==
  /\ pc = "done"
  /\ scene.occluder.shape = [kind |-> "RoundRectangle", width |-> 4,
                             height |-> 2, radius |-> 1]
  /\ scene.occluder.pos = <<1, 0>>
  /\ Len(bins) > 0

\* what the claim calls clamping: y is the value x is clamped to
ClampedTo(x, y) ==
  /\ 0 <= y /\ y <= 1000000
  /\ x = None => y = 0
  /\ (x # None /\ x # Some(NaN)) =>
       y = (IF x[1] < 0 THEN 0 ELSE IF x[1] > 1000000 THEN 1000000 ELSE x[1])

\* C14: the softness handed to the slicer is always within [0, 1] (below 0
\* becomes 0, above 1 becomes 1, absent becomes 0), and the softness written
\* to the uniform configuration is clamped the same way.
C14_SoftnessClamped ==
  /\ Called => ClampedTo(scene.softness, call.softness)
  /\ uniform # None => ClampedTo(scene.softness, uniform[1].softness)
  /\ (Called /\ uniform # None) => uniform[1].softness = call.softness

\* the point-in-polygon test of the light against the ring of the call
LightInsideRing ==
  point_inside_poly(scene.light.pos, call.occluder_vertices,
                    BoundingBox(call.occluder_vertices))

\* C19 as stated: for every shape the reverse flag is the result of the
\* point-in-polygon test of the light position against the world ring.
C19_RevIsInsideTest == Called => (call.rev = LightInsideRing)

\* C19 amended: for a Polygon and for a RoundRectangle the reverse flag is
\* the result of the point-in-polygon test (on the occluder's vertices, on
\* the inflated rectangle ring); for every other shape it is false.
C19_RevOnlyForPolygonAndRound ==
  Called =>
    IF scene.occluder.shape.kind \in {"Polygon", "RoundRectangle"}
      THEN call.rev = LightInsideRing
      ELSE ~call.rev

C19_Witness ==
  /\ pc = "done"
  /\ scene.occluder.shape.kind = "Polyline"
  /\ LightInsideRing
  /\ ~call.rev
  /\ Len(bins) > 0

\* C20: the index word of a polygonal record with index below 2^28 has bit
\* 31 set, the termination mode in bits 30..29, the reverse flag in bit 28
\* and the occluder index in bits 27..0; the word of a round record is the
\* bare occluder index, whatever the mode and the reverse flag.
C20_IndexWordLayout ==
  Called =>
    \A i \in 1..Len(bins) :
      LET hi == bins[i].occluder.index[1]
          lo == bins[i].occluder.index[2]
      IN  /\ hi \in 0..65535 /\ lo \in 0..65535
          /\ (call.poly /\ call.index < 268435456) =>
               /\ hi \div 32768 = 1
               /\ (hi \div 8192) % 4 = emitted[i].term
               /\ (hi \div 4096) % 2 = (IF call.rev THEN 1 ELSE 0)
               /\ (hi % 4096) * 65536 + lo = call.index
          /\ ~call.poly =>
               /\ hi \div 32768 = 0
               /\ hi * 65536 + lo = call.index

C20_Witness ==
  /\ pc = "done"
  /\ call.poly
  /\ call.rev
  /\ call.index = 268435455
  /\ \E i \in 1..Len(bins) : emitted[i].term = 1
  /\ \E i \in 1..Len(bins) : emitted[i].term = 2

\* the index assigned to the occluder of the scene for the kind of its shape
OwnIndex ==
  IF scene.occluder.shape.kind = "RoundRectangle"
    THEN scene.occluder.round_index[1]
    ELSE scene.occluder.poly_occluder[1]

\* the distance, in thousandths, from the light to the closest point of the
\* box around the ring of the call: 0 inside the box
BoxDistance ==
  LET box == BoundingBox(call.occluder_vertices)
      p   == scene.light.pos
      dx  == Max2(0, Max2(box.min[1] - p[1], p[1] - box.max[1]))
      dy  == Max2(0, Max2(box.min[2] - p[2], p[2] - box.max[2]))
  IN  CHOOSE d \in 0..46000 :
        /\ d * d <= (dx * dx + dy * dy) * 1000000
        /\ (d + 1) * (d + 1) > (dx * dx + dy * dy) * 1000000

\* C23: all records emitted for one light and one occluder carry the same
\* owning-occluder index and the same distance, the Euclidean distance from
\* the light to the closest point of the occluder's bounding box (0 when the
\* light is inside the box).
C23_SameIndexAndDistance ==
  Called =>
    \A i \in 1..Len(bins) :
      LET hi == bins[i].occluder.index[1]
          lo == bins[i].occluder.index[2]
      IN  /\ bins[i].occluder.distance = BoxDistance
          /\ (IF call.poly THEN hi % 4096 ELSE hi) * 65536 + lo = OwnIndex

C23_Witness ==
  /\ pc = "done"
  /\ call.poly
  /\ scene.light.pos = <<8, -6>>
  /\ scene.occluder.pos = <<1, 0>>
  /\ Len(bins) >= 1
  /\ \E i \in 1..Len(bins) : bins[i].occluder.length >= 3
  /\ \A i \in 1..Len(bins) : bins[i].occluder.distance = 7810

(***************************************************************************)
(* Properties of prepare_sprite_image_bind_groups.                         *)
(***************************************************************************)
\* the sprite's image and, if it has one, its normal map are ready on the GPU
Available(sprite) ==
  /\ sprite.image_handle_id \in sprite_world.gpu_images
  /\ sprite.normal_handle_id # None =>
       sprite.normal_handle_id[1] \in sprite_world.gpu_images

\* the instance numbers a batch range <<start, end>> stands for
RangeSet(range) == {x \in 0..(range[2] - 1) : x >= range[1]}

\* C22: the system never panics because a GPU image is missing: a sprite
\* whose image or normal map is missing contributes no instance, and the
\* sprites after it are batched without an unwrap on a missing current batch.
C22_NoPanicOnMissingImage ==
  /\ pcS # "panicked"
  /\ pcS \notin {"start", "unused"} =>
       \A k \in 1..Len(sprite_instance_buffer) :
         Available(sprite_world.sprites[sprite_instance_buffer[k].sprite])

\* C24: every instance added to a batch belongs to a sprite whose image is
\* the batch's image_handle_id and whose normal map and dummy flag are the
\* batch's normal_handle_id and normal_dummy.
C24_InstanceMatchesBatch ==
  pcS \notin {"start", "unused"} =>
    \A k \in 1..Len(sprite_instance_buffer) :
      LET inst   == sprite_instance_buffer[k]
          sprite == sprite_world.sprites[inst.sprite]
      IN  inst.batch # None =>
            /\ sprite_batches[inst.batch[1]].image_handle_id = sprite.image_handle_id
            /\ sprite_batches[inst.batch[1]].normal_handle_id = NormalOf(sprite)[1]
            /\ sprite_batches[inst.batch[1]].normal_dummy = NormalOf(sprite)[2]

\* the ranges of the batches are contiguous and disjoint and cover the
\* instances pushed; the open batch ends at the running instance count
RangesContiguous ==
  /\ \A k \in DOMAIN sprite_batches :
       /\ sprite_batches[k].range[1] < sprite_batches[k].range[2]
       /\ \/ sprite_batches[k].range[1] = 0
          \/ \E j \in DOMAIN sprite_batches :
               sprite_batches[j].range[2] = sprite_batches[k].range[1]
  /\ \A j, k \in DOMAIN sprite_batches :
       j # k => RangeSet(sprite_batches[j].range) \cap RangeSet(sprite_batches[k].range) = {}
  /\ UNION {RangeSet(sprite_batches[k].range) : k \in DOMAIN sprite_batches}
       = 0..(Len(sprite_instance_buffer) - 1)
  /\ index = Len(sprite_instance_buffer)
  /\ current_batch # None => sprite_batches[current_batch[1]].range[2] = index

\* C25: with distinct phase-item entities, the instance ranges of the batches
\* of one invocation are contiguous and disjoint, the open batch's range
\* ends at the running instance count, and together the ranges cover exactly
\* the instances pushed to the instance buffer.
C25_RangesCoverInstances ==
  pcS \notin {"start", "unused"} => RangesContiguous

(***************************************************************************)
(* Properties of extract_camera_phases.                                    *)
(***************************************************************************)
\* the retained views of the active Camera2d cameras
ActiveViews ==
  {RetainedViewEntity(c) : c \in {x \in CameraSet : cameras[x].exists /\ cameras[x].is_active}}

\* C30: after every run of extract_camera_phases the key sets of the sprite
\* phases and of the lightmap phases both equal the set of retained views of
\* the active Camera2d cameras; views of cameras that became inactive or were
\* removed are dropped in the same frame.
C30_PhasesOfActiveCameras ==
  pcE = "done" =>
    /\ DOMAIN sprite_phases = ActiveViews
    /\ DOMAIN lightmap_phases = ActiveViews

C30_Witness ==
  /\ pcE = "done"
  /\ Len(runs) = 2
  /\ runs[1]["c1"].is_active
  /\ runs[1]["c2"].is_active
  /\ runs[2]["c1"].exists /\ ~runs[2]["c1"].is_active
  /\ DOMAIN sprite_phases = {RetainedViewEntity("c2")}
  /\ DOMAIN lightmap_phases = {RetainedViewEntity("c2")}
  /\ sprite_phases[RetainedViewEntity("c2")] = << >>

(***************************************************************************)
(* Properties of prepare_data.                                             *)
(***************************************************************************)
\* the positions of the log that hold the given operation
OpsAt(log, op) == {i \in 1..Len(log) : log[i].op = op}

\* the position of the last reset before position i of the log, 0 if none
LastReset(log, i) ==
  IF \E j \in 1..(i - 1) : log[j].op = "reset"
    THEN CHOOSE j \in 1..(i - 1) :
           /\ log[j].op = "reset"
           /\ \A k \in (j + 1)..(i - 1) : log[k].op # "reset"
    ELSE 0

\* the records added between the last reset before position i and position i
RECURSIVE AddsBetween(_, _, _)
AddsBetween(log, j, i) ==
  IF j >= i THEN << >>
  ELSE (IF log[j].op = "add" THEN << log[j].rec >> ELSE << >>)
         \o AddsBetween(log, j + 1, i)

PassAdds(log, i) == AddsBetween(log, LastReset(log, i) + 1, i)

\* the last finished invocation
LastRun == history[Len(history)]

\* an invocation has returned and nothing has been started since
Returned == pcP = "idle" /\ Len(history) > 0 /\ Len(history) = frame

\* C5 as stated, in its most favourable reading (orthographic projection, at
\* least one view, light with an index): in one invocation the BinBuffer of
\* the light is written exactly once, after all its add_occluder calls,
\* whatever the number of views.
C5_WrittenOnce ==
  Returned =>
    \A l \in LightSet :
      (/\ LastRun.scene.orthographic
       /\ LastRun.scene.views # {}
       /\ LastRun.scene.lights[l].index # None) =>
        /\ Cardinality(OpsAt(LastRun.ops[l], "write")) = 1
        /\ \A i \in OpsAt(LastRun.ops[l], "add") :
             \A j \in OpsAt(LastRun.ops[l], "write") : i < j

\* C5 amended: in one invocation the BinBuffer of a light with an index is
\* written exactly once per view of the lightmap phases (when the projection
\* is orthographic), each write coming after all add_occluder calls of that
\* view's pass and no add_occluder following it before the next reset; the
\* BinBuffer of a light without index is not written, and nothing is written
\* when the projection is not orthographic.
C5_WrittenOncePerView ==
  Returned =>
    \A l \in LightSet :
      LET log == LastRun.ops[l]
      IN  /\ Cardinality(OpsAt(log, "write")) =
               IF LastRun.scene.orthographic /\ LastRun.scene.lights[l].index # None
                 THEN Cardinality(LastRun.scene.views) ELSE 0
          /\ Cardinality(OpsAt(log, "reset")) = Cardinality(OpsAt(log, "write"))
          /\ \A i \in OpsAt(log, "write") :
               /\ i = Len(log) \/ log[i + 1].op = "reset"
               /\ log[i].rec = PassAdds(log, i)

C5_Witness ==
  /\ Returned
  /\ Cardinality(LastRun.scene.views) = 2
  /\ LastRun.scene.lights["l1"].index = None
  /\ Cardinality(OpsAt(LastRun.ops["l1"], "write")) = 0
  /\ Cardinality(OpsAt(LastRun.ops["l2"], "write")) = 2
  /\ Cardinality(OpsAt(LastRun.ops["l2"], "add")) >= 2

\* the add_occluder calls prepare_data makes for a light in one pass
RECURSIVE LightRecords(_, _, _)
LightRecords(sc, l, k) ==
  IF k > Len(Occluders) THEN << >>
  ELSE OccluderRecords(sc, sc.lights[l], sc.occluders[Occluders[k]])
         \o LightRecords(sc, l, k + 1)

\* C6: the BinBuffer operations of every light come in passes of the form
\* reset, add_occluder*, write: no add_occluder comes before the reset or
\* after the write of its pass, and what is written is exactly the records
\* emitted for that light since the reset of the pass.
C6_ResetAddWrite ==
  \A l \in LightSet :
    \A i \in 1..Len(ops[l]) :
      /\ ops[l][i].op = "reset" => (i = 1 \/ ops[l][i - 1].op = "write")
      /\ ops[l][i].op = "add" => (i > 1 /\ ops[l][i - 1].op \in {"reset", "add"})
      /\ ops[l][i].op = "write" =>
           /\ i > 1 /\ ops[l][i - 1].op \in {"reset", "add"}
           /\ ops[l][i].rec = PassAdds(ops[l], i)
           /\ ops[l][i].rec = LightRecords(scene, l, 1)
           /\ (i = Len(ops[l]) /\ pcP # "idle") => bufs[l].written = ops[l][i].rec

C6_Witness ==
  /\ pcP = "par"
  /\ Cardinality(OpsAt(ops["l2"], "reset")) = 2
  /\ Cardinality(OpsAt(ops["l2"], "write")) = 2
  /\ Cardinality(OpsAt(ops["l2"], "add")) >= 2
  /\ bufs["l2"].written # << >>

\* C13: a light whose cast_shadows flag is false gets no record inserted
\* into its BinBuffer, whatever the occluders; when it has an index its
\* buffer is still reset and written (empty) once per view, and its bind
\* group and its batch entries are still published.
C13_NoShadowsNoRecords ==
  \A l \in LightSet :
    /\ ~scene.lights[l].cast_shadows =>
         /\ OpsAt(ops[l], "add") = {}
         /\ bufs[l].entries = << >>
    /\ (/\ Returned
        /\ LastRun.scene.orthographic
        /\ ~LastRun.scene.lights[l].cast_shadows
        /\ LastRun.scene.lights[l].index # None) =>
         LET log == LastRun.ops[l]
             views == LastRun.scene.views
         IN  /\ OpsAt(log, "add") = {}
             /\ Cardinality(OpsAt(log, "reset")) = Cardinality(views)
             /\ Cardinality(OpsAt(log, "write")) = Cardinality(views)
             /\ \A i \in OpsAt(log, "write") : log[i].rec = << >>
             /\ bufs[l].written = << >>
             /\ views # {} => l \in DOMAIN light_bind_groups
             /\ \A v \in views : <<v, l>> \in DOMAIN batches

C13_Witness ==
  /\ Returned
  /\ ~LastRun.scene.lights["l1"].cast_shadows
  /\ LastRun.scene.lights["l1"].index # None
  /\ Cardinality(LastRun.scene.views) = 2
  /\ OccluderRecords(LastRun.scene,
                     [LastRun.scene.lights["l1"] EXCEPT !.cast_shadows = TRUE],
                     LastRun.scene.occluders["o1"]) # << >>
  /\ Cardinality(OpsAt(LastRun.ops["l1"], "write")) = 2
  /\ "l1" \in DOMAIN light_bind_groups
  /\ <<"v1", "l1">> \in DOMAIN batches
  /\ OpsAt(LastRun.ops["l2"], "add") # {}

\* the lights prepare_data processed in the last finished invocation
Processed == {l \in LightSet : OpsAt(LastRun.ops[l], "write") # {}}

\* C21: after an invocation that processes lights, LightBindGroups holds an
\* entry for a light only if the light was processed in this invocation;
\* entries of lights processed in an earlier frame only are not carried over.
C21_NoStaleBindGroups ==
  (Returned /\ Processed # {}) => DOMAIN light_bind_groups \subseteq Processed

\* C26: a light whose LightIndex is None is skipped: in no step of an
\* invocation is its BinBuffer reset or written or its light pointer set,
\* and no LightBindGroups or LightBatches entry is inserted for it.
C26_UnindexedSkipped ==
  /\ [](\A l \in LightSet :
          (Returned /\ LastRun.scene.lights[l].index = None) =>
            LastRun.ops[l] = << >>)
  /\ [][\A l \in LightSet :
          scene.lights[l].index = None =>
            /\ bufs'[l] = bufs[l]
            /\ pointers'[l] = pointers[l]
            /\ ops'[l] = << >> \/ ops'[l] = ops[l]
            /\ l \in DOMAIN light_bind_groups' =>
                 /\ l \in DOMAIN light_bind_groups
                 /\ light_bind_groups'[l] = light_bind_groups[l]
            /\ \A k \in DOMAIN batches' :
                 k[2] = l => k \in DOMAIN batches]_vars

C26_Witness ==
  /\ Returned
  /\ Len(history) = 1
  /\ LastRun.scene.orthographic
  /\ Cardinality(LastRun.scene.views) = 2
  /\ LastRun.scene.lights["l1"].index = None
  /\ pointers["l1"] = None
  /\ "l1" \notin DOMAIN light_bind_groups
  /\ "l2" \in DOMAIN light_bind_groups
  /\ <<"v1", "l2">> \in DOMAIN batches

\* C27: after an invocation with an orthographic camera, LightBatches holds
\* exactly one entry for each pair of a view of the lightmap phases and a
\* light with an index, and no other entry; entries of the previous frame do
\* not survive.
C27_BatchesExact ==
  (Returned /\ LastRun.scene.orthographic) =>
    /\ DOMAIN batches =
         {<<v, l>> : v \in LastRun.scene.views,
                     l \in {x \in LightSet : LastRun.scene.lights[x].index # None}}
    /\ \A k \in DOMAIN batches : batches[k] = [id |-> k[2]]

C27_Witness ==
  /\ Returned
  /\ Len(history) = 2
  /\ LastRun.scene.orthographic
  /\ history[1].scene.orthographic
  /\ history[1].scene.views = {"v1", "v2"}
  /\ history[1].scene.lights["l1"].index # None
  /\ LastRun.scene.views = {"v1"}
  /\ DOMAIN batches = {<<"v1", "l1">>, <<"v1", "l2">>}

\* C28: when the projection is not orthographic, prepare_data returns without
\* effect: LightBatches is not cleared, LightBindGroups is unchanged and no
\* BinBuffer or light pointer is reset or written.
C28_NotOrthographicNoEffect ==
  [][(pcP = "idle" /\ ~scene.orthographic /\ frame' = frame + 1) =>
       /\ batches' = batches
       /\ light_bind_groups' = light_bind_groups
       /\ bufs' = bufs
       /\ pointers' = pointers
       /\ ops' = NoOps
       /\ pcP' = "idle"]_vars

C28_Witness ==
  /\ Returned
  /\ Len(history) = 2
  /\ ~LastRun.scene.orthographic
  /\ history[1].scene.orthographic
  /\ DOMAIN batches = {"v1", "v2"} \X {"l1", "l2"}
  /\ DOMAIN light_bind_groups = {"l1", "l2"}
  /\ bufs["l2"].written # << >>

\* C7 as stated: a record is inserted for a light and an occluder only if
\* the occluder's box meets the light's range box intersected with the
\* camera-visible rectangle; in particular the occluder's box meets the
\* camera-visible rectangle.
C7_CulledByCameraRect ==
  pcP \in {"views", "par"} =>
    \A l \in LightSet : \A i \in OpsAt(ops[l], "add") :
      LET box  == OccluderAabb(scene.occluders[ops[l][i].occ])
          cam  == CameraRect(scene)
          rng  == RangeBox(scene.lights[l])
      IN  /\ box.min[1] <= Min2(cam.max[1], rng.max[1])
          /\ box.max[1] >= Max2(cam.min[1], rng.min[1])
          /\ box.min[2] <= Min2(cam.max[2], rng.max[2])
          /\ box.max[2] >= Max2(cam.min[2], rng.min[2])

\* C7 amended: a record is inserted for a light and an occluder only if the
\* occluder's box meets the light's influence rectangle, which is the range
\* box [pos - range, pos + range] intersected with the smallest rectangle
\* that contains both the camera-visible rectangle and the light position;
\* an occluder outside the camera-visible rectangle can therefore produce
\* records when the light itself is outside it.
C7_CulledByInfluenceRect ==
  pcP \in {"views", "par"} =>
    \A l \in LightSet : \A i \in OpsAt(ops[l], "add") :
      LET box  == OccluderAabb(scene.occluders[ops[l][i].occ])
          cam  == CameraRect(scene)
          pos  == scene.lights[l].pos
          rng  == scene.lights[l].range
      IN  /\ box.min[1] <= Min2(Max2(cam.max[1], pos[1]), pos[1] + rng)
          /\ box.max[1] >= Max2(Min2(cam.min[1], pos[1]), pos[1] - rng)
          /\ box.min[2] <= Min2(Max2(cam.max[2], pos[2]), pos[2] + rng)
          /\ box.max[2] >= Max2(Min2(cam.min[2], pos[2]), pos[2] - rng)

C7_Witness ==
  /\ pcP = "par"
  /\ \E i \in OpsAt(ops["l1"], "add") :
       /\ ops["l1"][i].occ = "o2"
       /\ ~Intersects(OccluderAabb(scene.occluders["o2"]), CameraRect(scene))
  /\ scene.occluders["o1"].round_index # None
  /\ \A i \in OpsAt(ops["l1"], "add") : ops["l1"][i].occ # "o1"

\* C8: two invocations in a row on the same extracted world perform, for
\* every light, the same sequence of reset, add_occluder (record, start
\* angle, end angle) and write operations, and write the same content.
C8_SameTwice ==
  \A k \in 1..(Len(history) - 1) :
    history[k].scene = history[k + 1].scene =>
      \A l \in LightSet :
        history[k].ops[l] = history[k + 1].ops[l]

C8_Witness ==
  /\ Len(history) = 2
  /\ history[1].scene = history[2].scene
  /\ Cardinality(OpsAt(history[2].ops["l1"], "add")) >= 2
  /\ Cardinality(OpsAt(history[2].ops["l2"], "add")) >= 2
  /\ Cardinality(OpsAt(history[2].ops["l2"], "write")) = 2

\* the add_occluder operations for light l, occluders k.. in query order
RECURSIVE SeqAdds(_, _, _)
SeqAdds(sc, l, k) ==
  IF k > Len(Occluders) THEN << >>
  ELSE LET recs == OccluderRecords(sc, sc.lights[l], sc.occluders[Occluders[k]])
       IN  [i \in 1..Len(recs) |-> [op |-> "add", occ |-> Occluders[k], rec |-> recs[i]]]
             \o SeqAdds(sc, l, k + 1)

\* the operations on the BinBuffer of light l when the lights are processed
\* one after the other, for n views
RECURSIVE SeqLog(_, _, _)
SeqLog(sc, l, n) ==
  IF n = 0 \/ ~sc.orthographic \/ sc.lights[l].index = None THEN << >>
  ELSE << [op |-> "reset", occ |-> "", rec |-> << >>] >>
         \o SeqAdds(sc, l, 1)
         \o << [op |-> "write", occ |-> "", rec |-> LightRecords(sc, l, 1)] >>
         \o SeqLog(sc, l, n - 1)

\* the lights of a scene that have an index
Indexed(sc) == {l \in LightSet : sc.lights[l].index # None}

\* LightBindGroups after the first n invocations, lights processed in order
RECURSIVE SeqGroups(_)
SeqGroups(n) ==
  IF n = 0 THEN << >>
  ELSE LET sc == history[n].scene
           m  == SeqGroups(n - 1)
       IN  IF sc.orthographic /\ sc.views # {}
             THEN [l \in (DOMAIN m) \cup Indexed(sc) |->
                     IF l \in Indexed(sc) THEN BindGroup(l, sc.lights[l].index)
                     ELSE m[l]]
             ELSE m

\* LightBatches after the first n invocations, lights processed in order
RECURSIVE SeqBatches(_)
SeqBatches(n) ==
  IF n = 0 THEN << >>
  ELSE LET sc == history[n].scene
       IN  IF sc.orthographic
             THEN [k \in sc.views \X Indexed(sc) |-> [id |-> k[2]]]
             ELSE SeqBatches(n - 1)

\* C9: in the parallel phase every light belongs to exactly one task, every
\* BinBuffer operation of a pass is made by the task that owns the light,
\* and for every chunking and interleaving the operations on each light's
\* BinBuffer, its light pointer and the merged LightBindGroups and
\* LightBatches are those of processing the lights one after the other.
C9_ParallelAsSequential ==
  /\ pcP = "par" =>
       \A l \in LightSet :
         Cardinality({t \in 1..Len(tasks) :
                        \E i \in 1..Len(tasks[t].lights) : tasks[t].lights[i] = l}) = 1
  /\ \A l \in LightSet : \A i \in 2..Len(ops[l]) :
       ops[l][i].op # "reset" => ops[l][i].task = ops[l][i - 1].task
  /\ Returned =>
       /\ \A l \in LightSet :
            /\ LastRun.ops[l]
                 = SeqLog(LastRun.scene, l, Cardinality(LastRun.scene.views))
            /\ (LastRun.scene.orthographic /\ LastRun.scene.views # {}
                  /\ l \in Indexed(LastRun.scene)) =>
                 /\ pointers[l] = LastRun.scene.lights[l].index
                 /\ bufs[l].written = LightRecords(LastRun.scene, l, 1)
       /\ light_bind_groups = SeqGroups(Len(history))
       /\ batches = SeqBatches(Len(history))

C9_Witness ==
  /\ Returned
  /\ Cardinality(LastRun.scene.views) = 2
  /\ Cardinality(OpsAt(LastRun.ops["l1"], "add")) >= 2
  /\ Cardinality(OpsAt(LastRun.ops["l2"], "add")) >= 2
  /\ \E i \in 1..Len(ops["l2"]) : ops["l2"][i].task = 2
  /\ \E i \in 1..Len(ops["l2"]) : ops["l2"][i].task = 1
  /\ DOMAIN light_bind_groups = {"l1", "l2"}
  /\ Cardinality(DOMAIN batches) = 4

====
